---- MODULE Spec2Model ----
(***************************************************************************)
(* Model of the tunnel supervisor of Jonwing/mario:                        *)
(*   pkg/ssh/tunnel.go  (Tunnel, its work task, accept task, connectors)   *)
(*   internal/manage.go (Mario: registry, dispatcher, status broadcast)    *)
(* Every goroutine of the program is a thread of the model; a step is the  *)
(* code between two blocking points (channel operation, lock, dial).       *)
(***************************************************************************)
EXTENDS Integers, Sequences, FiniteSets, TLC

\* ------------------------------------------------------------------ bounds
MaxTunnels == 2      \* tunnels the fleet may establish
MaxTasks == 2        \* goroutines running Tunnel.Up at the same time, per tunnel
MaxCalls == 2        \* calls of Down / Destroy / Reconnect made by external callers
MaxListens == 2      \* successful net.Listen calls per tunnel
MaxConns == 2        \* local connections accepted per tunnel
OneConn == 1         \* local connections accepted where one is enough
MaxFails == 1        \* failures (dial, listen, session loss) the environment injects
MaxLog == 4          \* published statuses recorded per tunnel

Tunnels == 1..MaxTunnels
Tasks == 1..MaxTasks
Calls == 1..MaxCalls
\* the threads that call the Tunnel API: the fleet's dispatcher, the callers
\* and the thread in Mario.ApplyAll
DispThread == 0
AllThread == MaxCalls + 1
Threads == {DispThread, AllThread} \cup Calls
\* the completion sinks: one per caller, and the channel waiting of ApplyAll
Sinks == Calls \cup {AllThread}
Listeners == 1..MaxListens

\* ------------------------------------------------------- program constants
StatusNew == 0
StatusConnecting == 1
StatusRunning == 32768
StatusConnected == StatusRunning + 4
StatusReconnecting == StatusRunning + 8
StatusClosed == StatusRunning + 16
StatusError == 65536
StatusRemoved == 131072

WorksCap == 1
ActionsCap == 1
UpdatedCap == 1
PublishCap == 1

\* errors (nil is NoErr)
NoErr == "nil"
ErrDial == "dial"
ErrListen == "listen"
ErrAccept == "accept"
ErrKeepalive == "keepalive"
errRemoteLost == "remote connection lost"

\* -------------------------------------------------------------- bit masks
RECURSIVE BitAnd(_, _)
BitAnd(a, b) ==
    IF a = 0 \/ b = 0 THEN 0
    ELSE (a % 2) * (b % 2) + 2 * BitAnd(a \div 2, b \div 2)

BitOr(a, b) == a + b - BitAnd(a, b)

\* s & ^m
BitClear(s, m) == s - BitAnd(s, m)

\* s & m == m
Has(s, m) == BitAnd(s, m) = m

VARIABLES
    \* Tunnel runtime state (tunnel.go:409-449)
    status, err, listener, sshClient, connectors, cCount, works, mu,
    \* accepted local sockets of a tunnel that are open and owned by no Connector
    conns,
    \* sockets of the program: open listeners, connectors whose sockets are open
    lsOpen, lsCount, sockOpen,
    \* goroutines of a tunnel
    wt, acc, cps,
    \* external callers of the Tunnel API and their completion sinks
    calls, sinks,
    \* Mario (manage.go:118-143) and its dispatcher and subscriber
    tunnelCount, wrappers, actions, updatedTunnels, publishWrapper, disp, all, est,
    \* Mario.CheckAliveInterval and the healthCheckInterval of each tunnel, seconds
    beat,
    \* Dashboard (view.go:49-69): the IDs of d.tunnels in their order, and
    \* (history) the IDs of the views its receive loop has handled and the ID
    \* of the last one
    dash,
    \* environment budgets
    failsLeft, connsLeft,
    \* history (not program state): who wrote the runtime state last, whether
    \* a Destroy has signalled completion
    writer, destroyed, log

tunnelVars == <<status, err, listener, sshClient, connectors, cCount, conns, works, mu,
                lsOpen, lsCount, sockOpen>>
taskVars == <<wt, acc, cps>>
callVars == <<calls, sinks>>
fleetVars == <<tunnelCount, wrappers, actions, updatedTunnels, publishWrapper, disp,
               all, est, beat, dash, dash>>
envVars == <<failsLeft, connsLeft>>
histVars == <<writer, destroyed, log>>
vars == <<tunnelVars, taskVars, callVars, fleetVars, envVars, histVars>>

\* -------------------------------------------------------------- threads
\* the holder of a tunnel's write lock while it is blocked in OnStatus
Free == <<"free", 0>>
WorkTask(k) == <<"work", k>>
Caller(c) == <<"caller", c>>

NoSink == 0

Item(kind, sink, arg) == [kind |-> kind, sink |-> sink, arg |-> arg]

NoItem == Item("none", NoSink, 0)

\* a goroutine slot for Tunnel.Up: where it is (pc), who called forceConnect
\* (ctx), the work item it executes (item) and the error it carries (e);
\* cause (history) is the error with which the forceConnect of the item failed
IdleTask == [pc |-> "idle", ctx |-> "none", item |-> NoItem, e |-> NoErr,
             cause |-> NoErr]
\* a call of the Tunnel API: where it is (pc), the operation, the tunnel, the
\* sink; late (history) says that a Destroy of the tunnel had signalled
\* completion before the call began
IdleCall == [pc |-> "idle", op |-> "none", t |-> 0, sink |-> NoSink, late |-> FALSE]
IdleAccept == [pc |-> "none", cur |-> 0]

\* a TunnelInfo (manage.go:49-55); NoView is the nil pointer
View(id, name) == [id |-> id, name |-> name]
NoView == View(0, "")
IdleEst == [pc |-> "none", view |-> NoView, go |-> FALSE]
\* the dispatcher: at its select, or holding the tunnel it received from
\* updatedTunnels (raw) while it waits for m.wm.Lock()
IdleDisp == [pc |-> "select", view |-> NoView, raw |-> 0]
\* Mario.ApplyAll: the tunnels registered when it ranges over m.wrappers
\* (reg), those it has still to call (todo), the number len(m.wrappers) (n),
\* and whether waitTimeout ended on its timer. Mario.Stop runs on the same
\* thread: op tells the two apart, cur is the tunnel Stop is at
IdleAll == [pc |-> "idle", op |-> "none", reg |-> {}, todo |-> {}, cur |-> 0,
            n |-> 0, timeout |-> FALSE]

\* Tunnel.closed, Tunnel.running (callers hold the guard mu[t] = Free)
closed(t) == Has(status[t], StatusClosed)
running(t) == Has(status[t], StatusRunning)
removed(t) == Has(status[t], StatusRemoved)

\* Tunnel.Error with the bug of returning t.err whatever the status is
ErrorStale(t) == err[t]

\* Tunnel.Error
Error(t) == IF Has(status[t], StatusError) THEN err[t] ELSE NoErr


Min(S) == CHOOSE x \in S : \A y \in S : x <= y

\* a blocking send on a buffered channel: there is room
Room(ch, cap) == Len(ch) < cap

\* ------------------------------------------------------ status publication
\* the history of the calls of OnStatus: the statuses published for tunnel t,
\* in order, recorded while log.on and up to MaxLog of them
Logged(t, st) ==
    IF log.on /\ Len(log.of[t]) < MaxLog
       THEN [log EXCEPT !.of[t] = Append(@, st)]
       ELSE log

\* setStatusError with the bug of OR-ing the new status into the old one
SetStatusErrorOr(t, st, e, who) ==
    /\ mu[t] = Free
    /\ status' = [status EXCEPT ![t] =
                     BitOr(@, IF e # NoErr THEN BitOr(st, StatusError) ELSE st)]
    /\ err' = [err EXCEPT ![t] = IF e # NoErr THEN e ELSE @]
    /\ writer' = [writer EXCEPT ![t] = @ \cup {who[1]}]
    /\ log' = Logged(t, status'[t])
    /\ IF Room(updatedTunnels, UpdatedCap)
          THEN /\ updatedTunnels' = Append(updatedTunnels, t)
               /\ mu' = mu
          ELSE /\ updatedTunnels' = updatedTunnels
               /\ mu' = [mu EXCEPT ![t] = who]

\* Tunnel.setStatusError: under the write lock, OR in the Error bit and store
\* err when err is not nil, assign the status, and call OnStatus, which is
\* Mario.handleTunnel: a blocking send on updatedTunnels. A thread that finds
\* the channel full stays in OnStatus holding the lock (mu[t] = who).
SetStatusError(t, st, e, who) ==
    /\ mu[t] = Free
    /\ status' = [status EXCEPT ![t] = IF e # NoErr THEN BitOr(st, StatusError) ELSE st]
    /\ err' = [err EXCEPT ![t] = IF e # NoErr THEN e ELSE @]
    /\ writer' = [writer EXCEPT ![t] = @ \cup {who[1]}]
    /\ log' = Logged(t, status'[t])
    /\ IF Room(updatedTunnels, UpdatedCap)
          THEN /\ updatedTunnels' = Append(updatedTunnels, t)
               /\ mu' = mu
          ELSE /\ updatedTunnels' = updatedTunnels
               /\ mu' = [mu EXCEPT ![t] = who]

\* Mario.handleTunnel completing for the thread blocked in it
FinishPublish(t) ==
    /\ mu[t] # Free
    /\ Room(updatedTunnels, UpdatedCap)
    /\ updatedTunnels' = Append(updatedTunnels, t)
    /\ mu' = [mu EXCEPT ![t] = Free]
    /\ UNCHANGED <<status, err, listener, sshClient, connectors, cCount, conns, works,
                   lsOpen, lsCount, sockOpen, taskVars, callVars,
                   tunnelCount, wrappers, actions, publishWrapper, disp, all, est, beat, dash,
                   envVars, histVars>>

\* the completion sink of a call receives nil
Signal(sink) == IF sink = NoSink THEN sinks ELSE [sinks EXCEPT ![sink] = @ + 1]

\* a send on the completion sink can proceed. The sinks of the callers are
\* theirs to size; the channel waiting of Stop has room for len(m.wrappers)
\* values and nothing receives from it before Stop is in waitTimeout
SinkRoom(sink) ==
    \/ sink # AllThread
    \/ all.pc \notin {"sloop", "snew", "sdown"}
    \/ sinks[AllThread] < all.n


\* the fleet's variables but updatedTunnels, which a status publication changes
fleetRest == <<tunnelCount, wrappers, actions, publishWrapper, disp, all, est,
               beat, dash>>

\* ---------------------------------------------------------- the work task
FreeSlots(t) == {k \in Tasks : wt[t][k].pc = "idle"}

\* go t.Up()
SpawnUp(t) == [wt EXCEPT ![t][Min(FreeSlots(t))] = [IdleTask EXCEPT !.pc = "up"]]

Blocked(t, k) == mu[t] = WorkTask(k)

\* forceConnect returns e to its caller: the health check drops it and the
\* loop goes on (tick); runOnce enters the loop on nil, else has the error to
\* publish before it returns (init); the work item of Reconnect signals its
\* sink and returns nil, or without a sink returns e to the loop (item)
Returned(w, e) ==
    CASE w.ctx = "tick" -> [IdleTask EXCEPT !.pc = "loop"]
      [] w.ctx = "init" /\ e = NoErr -> [IdleTask EXCEPT !.pc = "loop"]
      [] w.ctx = "init" /\ e # NoErr -> [w EXCEPT !.pc = "post", !.e = e]
      [] OTHER -> [w EXCEPT !.pc = "post", !.ctx = "none", !.cause = e,
                            !.e = IF w.item.sink = NoSink THEN e ELSE NoErr]

ReturnedSinks(w) == IF w.ctx = "item" THEN Signal(w.item.sink) ELSE sinks

\* Tunnel.Up: return when running(), else runOnce, which returns at once
\* when there is a listener, else starts with forceConnect
WtUp(t, k) ==
    /\ wt[t][k].pc = "up"
    /\ mu[t] = Free
    /\ wt' = [wt EXCEPT ![t][k] =
                CASE running(t) -> IdleTask
                  [] listener[t] # 0 -> [IdleTask EXCEPT !.pc = "exit"]
                  [] OTHER -> [IdleTask EXCEPT !.pc = "fc1", !.ctx = "init"]]
    /\ UNCHANGED <<tunnelVars, acc, cps, callVars, fleetVars, envVars, histVars>>

\* Tunnel.forceConnect: close the present client, dial the SSH server
WtDial(t, k) ==
    LET w == wt[t][k] IN
    /\ w.pc = "fc1"
    /\ ~Blocked(t, k)
    /\ \/ /\ sshClient' = [sshClient EXCEPT ![t] = "open"]
          /\ wt' = [wt EXCEPT ![t][k].pc = "fc2"]
          /\ writer' = [writer EXCEPT ![t] = @ \cup {"work"}]
          /\ log' = log
          /\ UNCHANGED <<failsLeft, sinks>>
       \/ /\ failsLeft > 0
          /\ failsLeft' = failsLeft - 1
          /\ sshClient' = [sshClient EXCEPT ![t] = IF @ = "nil" THEN "nil" ELSE "closed"]
          /\ wt' = [wt EXCEPT ![t][k] = Returned(w, ErrDial)]
          /\ sinks' = ReturnedSinks(w)
          /\ UNCHANGED <<writer, log>>
    /\ UNCHANGED <<status, err, listener, connectors, cCount, conns, works, mu,
                   lsOpen, lsCount, sockOpen, acc, cps, calls, fleetVars,
                   connsLeft, destroyed>>

\* forceConnect with the bug of the inverted test: Connecting is published
\* and the address bound only when a listener exists and is not closed
WtListenCheckInverted(t, k) ==
    LET w == wt[t][k] IN
    /\ w.pc = "fc2"
    /\ mu[t] = Free
    /\ IF listener[t] # 0 /\ ~closed(t)
          THEN /\ SetStatusError(t, StatusConnecting, NoErr, WorkTask(k))
               /\ wt' = [wt EXCEPT ![t][k].pc = "fc3"]
          ELSE /\ wt' = [wt EXCEPT ![t][k].pc = "fc4"]
               /\ UNCHANGED <<status, err, mu, updatedTunnels, writer, log>>
    /\ UNCHANGED <<listener, sshClient, connectors, cCount, conns, works,
                   lsOpen, lsCount, sockOpen, acc, cps, callVars, fleetRest,
                   envVars, destroyed>>

\* Tunnel.forceConnect after the dial: without a listener, or closed,
\* publish Connecting and go on to listen; else publish Connected
WtListenCheck(t, k) ==
    LET w == wt[t][k] IN
    /\ w.pc = "fc2"
    /\ mu[t] = Free
    /\ IF listener[t] = 0 \/ closed(t)
          THEN /\ SetStatusError(t, StatusConnecting, NoErr, WorkTask(k))
               /\ wt' = [wt EXCEPT ![t][k].pc = "fc3"]
          ELSE /\ wt' = [wt EXCEPT ![t][k].pc = "fc4"]
               /\ UNCHANGED <<status, err, mu, updatedTunnels, writer, log>>
    /\ UNCHANGED <<listener, sshClient, connectors, cCount, conns, works,
                   lsOpen, lsCount, sockOpen, acc, cps, callVars, fleetRest,
                   envVars, destroyed>>

\* net.Listen with the bug of not storing the new listener in t.listener
WtListenNoAssign(t, k) ==
    LET w == wt[t][k] IN
    /\ w.pc = "fc3"
    /\ ~Blocked(t, k)
    /\ \/ /\ lsOpen[t] = {}
          /\ lsCount[t] < MaxListens
          /\ LET l == lsCount[t] + 1 IN
                /\ lsCount' = [lsCount EXCEPT ![t] = l]
                /\ listener' = listener
                /\ lsOpen' = [lsOpen EXCEPT ![t] = {l}]
                /\ acc' = [acc EXCEPT ![t][l] = [pc |-> "accept", cur |-> l]]
          /\ wt' = [wt EXCEPT ![t][k].pc = "fc4"]
          /\ writer' = [writer EXCEPT ![t] = @ \cup {"work"}]
          /\ log' = log
          /\ UNCHANGED <<failsLeft, sinks>>
       \/ /\ lsOpen[t] # {} \/ failsLeft > 0
          /\ failsLeft' = IF lsOpen[t] # {} THEN failsLeft ELSE failsLeft - 1
          /\ wt' = [wt EXCEPT ![t][k] = Returned(w, ErrListen)]
          /\ sinks' = ReturnedSinks(w)
          /\ UNCHANGED <<lsCount, listener, lsOpen, acc, writer, log>>
    /\ UNCHANGED <<status, err, sshClient, connectors, cCount, conns, works, mu,
                   sockOpen, cps, calls, fleetVars, connsLeft, destroyed>>

\* Tunnel.forceConnect: net.Listen on the local address, which fails while
\* a listener of this address is open; on success go t.listenLocal()
WtListen(t, k) ==
    LET w == wt[t][k] IN
    /\ w.pc = "fc3"
    /\ ~Blocked(t, k)
    /\ \/ /\ lsOpen[t] = {}
          /\ lsCount[t] < MaxListens
          /\ LET l == lsCount[t] + 1 IN
                /\ lsCount' = [lsCount EXCEPT ![t] = l]
                /\ listener' = [listener EXCEPT ![t] = l]
                /\ lsOpen' = [lsOpen EXCEPT ![t] = {l}]
                /\ acc' = [acc EXCEPT ![t][l] = [pc |-> "accept", cur |-> l]]
          /\ wt' = [wt EXCEPT ![t][k].pc = "fc4"]
          /\ writer' = [writer EXCEPT ![t] = @ \cup {"work"}]
          /\ log' = log
          /\ UNCHANGED <<failsLeft, sinks>>
       \/ /\ lsOpen[t] # {} \/ failsLeft > 0
          /\ failsLeft' = IF lsOpen[t] # {} THEN failsLeft ELSE failsLeft - 1
          /\ wt' = [wt EXCEPT ![t][k] = Returned(w, ErrListen)]
          /\ sinks' = ReturnedSinks(w)
          /\ UNCHANGED <<lsCount, listener, lsOpen, acc, writer, log>>
    /\ UNCHANGED <<status, err, sshClient, connectors, cCount, conns, works, mu,
                   sockOpen, cps, calls, fleetVars, connsLeft, destroyed>>

\* Tunnel.forceConnect: publish Connected and return nil; a task that
\* OnStatus blocks returns when the send has gone through (WtFcRet)
WtConnected(t, k) ==
    LET w == wt[t][k] IN
    /\ w.pc = "fc4"
    /\ SetStatusError(t, StatusConnected, NoErr, WorkTask(k))
    /\ IF Room(updatedTunnels, UpdatedCap)
          THEN /\ wt' = [wt EXCEPT ![t][k] = Returned(w, NoErr)]
               /\ sinks' = ReturnedSinks(w)
          ELSE /\ wt' = [wt EXCEPT ![t][k].pc = "fcret"]
               /\ UNCHANGED sinks
    /\ UNCHANGED <<listener, sshClient, connectors, cCount, conns, works,
                   lsOpen, lsCount, sockOpen, acc, cps, calls, fleetRest,
                   envVars, destroyed>>

WtFcRet(t, k) ==
    LET w == wt[t][k] IN
    /\ w.pc = "fcret"
    /\ ~Blocked(t, k)
    /\ wt' = [wt EXCEPT ![t][k] = Returned(w, NoErr)]
    /\ sinks' = ReturnedSinks(w)
    /\ UNCHANGED <<tunnelVars, acc, cps, calls, fleetVars, envVars, histVars>>

\* Tunnel.runOnce with the result of forceConnect or of work(): an error is
\* published as StatusError; runOnce then returns when the error is that of
\* its first forceConnect, or when the status has Removed
WtPost(t, k) ==
    LET w == wt[t][k] IN
    /\ w.pc = "post"
    /\ mu[t] = Free
    /\ IF w.e # NoErr
          THEN /\ SetStatusError(t, StatusError, w.e, WorkTask(k))
               /\ wt' = [wt EXCEPT ![t][k] =
                            IF w.ctx = "init" THEN [IdleTask EXCEPT !.pc = "exit"]
                            ELSE [w EXCEPT !.e = NoErr]]
          ELSE /\ wt' = [wt EXCEPT ![t][k] =
                            [IdleTask EXCEPT !.pc = IF removed(t) THEN "exit" ELSE "loop"]]
               /\ UNCHANGED <<status, err, mu, updatedTunnels, writer, log>>
    /\ UNCHANGED <<listener, sshClient, connectors, cCount, conns, works,
                   lsOpen, lsCount, sockOpen, acc, cps, callVars, fleetRest,
                   envVars, destroyed>>

\* the deferred function of runOnce: clear the Running bit, unpublished
WtExit(t, k) ==
    /\ wt[t][k].pc = "exit"
    /\ mu[t] = Free
    /\ status' = [status EXCEPT ![t] = BitClear(@, StatusRunning)]
    /\ writer' = [writer EXCEPT ![t] = @ \cup {"work"}]
    /\ log' = log
    /\ wt' = [wt EXCEPT ![t][k] = IdleTask]
    /\ UNCHANGED <<err, listener, sshClient, connectors, cCount, conns, works, mu,
                   lsOpen, lsCount, sockOpen, acc, cps, callVars, fleetVars,
                   envVars, destroyed>>

\* case work := <-t.works, for the items that take no lock: the work item
\* of Reconnect is forceConnect; the item of an accepted connection dials
\* the remote target through the SSH client (a nil client is a nil
\* dereference, which ends the process), on failure it returns nil and
\* leaves conn as it is, on success it enters newConnector, where t.cCount++
\* loads the counter (kept in item.arg until the store); the item of
\* closeConnector deletes the connector
WtTake(t, k) ==
    LET it == Head(works[t]) IN
    /\ wt[t][k].pc = "loop"
    /\ ~Blocked(t, k)
    /\ works[t] # <<>>
    /\ works' = [works EXCEPT ![t] = Tail(@)]
    /\ wt' = [wt EXCEPT ![t][k] =
                CASE it.kind = "reconnect" ->
                       [pc |-> "fc1", ctx |-> "item", item |-> it, e |-> NoErr,
                        cause |-> NoErr]
                  [] it.kind \in {"down", "destroy", "acceptErr"} ->
                       [pc |-> "exec", ctx |-> "none", item |-> it, e |-> NoErr,
                        cause |-> NoErr]
                  [] it.kind = "accepted" /\ sshClient[t] = "nil" ->
                       [IdleTask EXCEPT !.pc = "panic"]
                  [] it.kind = "accepted" /\ sshClient[t] = "open" ->
                       [IdleTask EXCEPT !.pc = "newc",
                                        !.item = Item("accepted", NoSink, cCount[t])]
                  [] OTHER -> [IdleTask EXCEPT !.pc = "post"]]
    /\ connectors' = [connectors EXCEPT ![t] =
                        IF it.kind = "delete" THEN @ \ {it.arg} ELSE @]
    /\ writer' = [writer EXCEPT ![t] =
                    IF connectors'[t] # connectors[t] THEN @ \cup {"work"} ELSE @]
    /\ log' = log
    /\ UNCHANGED <<status, err, listener, sshClient, cCount, conns, mu, lsOpen, lsCount,
                   sockOpen, acc, cps, callVars, fleetVars, envVars, destroyed>>

\* Tunnel.newConnector, from the store of t.cCount++ on: the counter of the
\* new Connector is the value stored, ReplaceOrInsert puts it into the set
\* (in the place of a Connector with the same counter, if there is one), and
\* go cnt.forward() starts its two copy tasks
WtNewConnector(t, k) ==
    LET c == wt[t][k].item.arg + 1 IN
    /\ wt[t][k].pc = "newc"
    /\ cCount' = [cCount EXCEPT ![t] = c]
    /\ connectors' = [connectors EXCEPT ![t] = @ \cup {c}]
    /\ sockOpen' = [sockOpen EXCEPT ![t] = @ \cup {c}]
    /\ cps' = [cps EXCEPT ![t][c].copy = @ + 2]
    /\ conns' = [conns EXCEPT ![t] = @ - 1]
    /\ wt' = [wt EXCEPT ![t][k] = [IdleTask EXCEPT !.pc = "post"]]
    /\ writer' = [writer EXCEPT ![t] = @ \cup {"work"}]
    /\ log' = log
    /\ UNCHANGED <<status, err, listener, sshClient, works, mu, lsOpen, lsCount,
                   acc, callVars, fleetVars, envVars, destroyed>>

\* the health check with the bug of not skipping a tunnel that was closed
\* without error
WtTickNoSkip(t, k) ==
    /\ wt[t][k].pc = "loop"
    /\ mu[t] = Free
    /\ \/ /\ removed(t)
          /\ wt' = [wt EXCEPT ![t][k].pc = "exit"]
          /\ UNCHANGED <<status, err, mu, updatedTunnels, writer, log>>
       \/ /\ ~removed(t)
          /\ sshClient[t] # "open"
          /\ SetStatusError(t, StatusError,
                            IF sshClient[t] = "nil" THEN errRemoteLost ELSE ErrKeepalive,
                            WorkTask(k))
          /\ wt' = [wt EXCEPT ![t][k].pc = "fc1", ![t][k].ctx = "tick"]
    /\ UNCHANGED <<listener, sshClient, connectors, cCount, conns, works,
                   lsOpen, lsCount, sockOpen, acc, cps, callVars, fleetRest,
                   envVars, destroyed>>

\* case <-ticker.C: the health check. It returns on Removed, skips a tunnel
\* that is closed without error or whose keepalive is answered, and else
\* publishes the error and calls forceConnect
WtTick(t, k) ==
    /\ wt[t][k].pc = "loop"
    /\ mu[t] = Free
    /\ \/ /\ removed(t)
          /\ wt' = [wt EXCEPT ![t][k].pc = "exit"]
          /\ UNCHANGED <<status, err, mu, updatedTunnels, writer, log>>
       \/ /\ ~removed(t)
          /\ ~(closed(t) /\ Error(t) = NoErr)
          /\ sshClient[t] # "open"
          /\ SetStatusError(t, StatusError,
                            IF sshClient[t] = "nil" THEN errRemoteLost ELSE ErrKeepalive,
                            WorkTask(k))
          /\ wt' = [wt EXCEPT ![t][k].pc = "fc1", ![t][k].ctx = "tick"]
    /\ UNCHANGED <<listener, sshClient, connectors, cCount, conns, works,
                   lsOpen, lsCount, sockOpen, acc, cps, callVars, fleetRest,
                   envVars, destroyed>>

\* the work item of Down with the bug of reporting a tunnel that is closed
\* already as an error
WtExecDownTwice(t, k) ==
    LET w == wt[t][k] IN
    /\ w.pc = "exec"
    /\ w.item.kind \in {"down", "destroy"}
    /\ sockOpen' = [sockOpen EXCEPT ![t] = @ \ connectors[t]]
    /\ connectors' = [connectors EXCEPT ![t] = {}]
    /\ SetStatusError(t, IF w.item.kind = "down" THEN StatusClosed ELSE StatusRemoved,
                      IF closed(t) THEN ErrAccept ELSE NoErr, WorkTask(k))
    /\ wt' = [wt EXCEPT ![t][k].pc = "dn2"]
    /\ UNCHANGED <<listener, sshClient, cCount, conns, works, lsOpen, lsCount,
                   acc, cps, callVars, fleetRest, envVars, destroyed>>

\* the work item of Down / Destroy: break down every connector, clear the
\* set, publish Closed / Removed
WtExecDown(t, k) ==
    LET w == wt[t][k] IN
    /\ w.pc = "exec"
    /\ w.item.kind \in {"down", "destroy"}
    /\ sockOpen' = [sockOpen EXCEPT ![t] = @ \ connectors[t]]
    /\ connectors' = [connectors EXCEPT ![t] = {}]
    /\ SetStatusError(t, IF w.item.kind = "down" THEN StatusClosed ELSE StatusRemoved,
                      NoErr, WorkTask(k))
    /\ wt' = [wt EXCEPT ![t][k].pc = "dn2"]
    /\ UNCHANGED <<listener, sshClient, cCount, conns, works, lsOpen, lsCount,
                   acc, cps, callVars, fleetRest, envVars, destroyed>>

\* ... then t.listener.Close() and the completion sink; a nil listener is a
\* nil dereference, which ends the process
WtCloseListener(t, k) ==
    LET w == wt[t][k] IN
    /\ w.pc = "dn2"
    /\ ~Blocked(t, k)
    /\ IF listener[t] = 0
          THEN /\ wt' = [wt EXCEPT ![t][k] = [IdleTask EXCEPT !.pc = "panic"]]
               /\ UNCHANGED <<lsOpen, sinks, destroyed>>
          ELSE /\ SinkRoom(w.item.sink)
               /\ lsOpen' = [lsOpen EXCEPT ![t] = @ \ {listener[t]}]
               /\ sinks' = Signal(w.item.sink)
               /\ destroyed' = [destroyed EXCEPT ![t] =
                                   @ \/ (w.item.kind = "destroy" /\ w.item.sink # NoSink)]
               /\ wt' = [wt EXCEPT ![t][k] = [IdleTask EXCEPT !.pc = "post"]]
    /\ UNCHANGED <<status, err, listener, sshClient, connectors, cCount, conns, works, mu,
                   lsCount, sockOpen, acc, cps, calls, fleetVars, envVars, writer, log>>

\* the work item of a failed Accept with the bug of leaving out the test of
\* t.closed(): it publishes Closed with the accept error on every tunnel
WtExecAcceptErrAlways(t, k) ==
    LET w == wt[t][k] IN
    /\ w.pc = "exec"
    /\ w.item.kind = "acceptErr"
    /\ mu[t] = Free
    /\ SetStatusError(t, StatusClosed, ErrAccept, WorkTask(k))
    /\ wt' = [wt EXCEPT ![t][k] = [IdleTask EXCEPT !.pc = "post"]]
    /\ UNCHANGED <<listener, sshClient, connectors, cCount, conns, works,
                   lsOpen, lsCount, sockOpen, acc, cps, callVars, fleetRest,
                   envVars, destroyed>>

\* the work item of a failed Accept: nothing on a closed tunnel, else
\* publish Closed with the accept error
WtExecAcceptErr(t, k) ==
    LET w == wt[t][k] IN
    /\ w.pc = "exec"
    /\ w.item.kind = "acceptErr"
    /\ mu[t] = Free
    /\ IF closed(t)
          THEN UNCHANGED <<status, err, mu, updatedTunnels, writer, log>>
          ELSE SetStatusError(t, StatusClosed, ErrAccept, WorkTask(k))
    /\ wt' = [wt EXCEPT ![t][k] = [IdleTask EXCEPT !.pc = "post"]]
    /\ UNCHANGED <<listener, sshClient, connectors, cCount, conns, works,
                   lsOpen, lsCount, sockOpen, acc, cps, callVars, fleetRest,
                   envVars, destroyed>>

\* -------------------------------------------------------- the accept task
\* Tunnel.listenLocal: Accept returns a connection
AccAccept(t, l) ==
    /\ acc[t][l].pc = "accept"
    /\ acc[t][l].cur \in lsOpen[t]
    /\ connsLeft > 0
    /\ connsLeft' = connsLeft - 1
    /\ acc' = [acc EXCEPT ![t][l].pc = "sendConn"]
    /\ conns' = [conns EXCEPT ![t] = @ + 1]
    /\ UNCHANGED <<status, err, listener, sshClient, connectors, cCount, works, mu,
                   lsOpen, lsCount, sockOpen, wt, cps, callVars, fleetVars,
                   failsLeft, histVars>>

\* Accept fails: the listener it waits on has been closed
AccFail(t, l) ==
    /\ acc[t][l].pc = "accept"
    /\ acc[t][l].cur \notin lsOpen[t]
    /\ acc' = [acc EXCEPT ![t][l].pc = "sendErr"]
    /\ UNCHANGED <<tunnelVars, wt, cps, callVars, fleetVars, envVars, histVars>>

\* t.works <- the item of the accepted connection; the loop then calls
\* Accept on what t.listener is now
AccSendConn(t, l) ==
    /\ acc[t][l].pc = "sendConn"
    /\ Room(works[t], WorksCap)
    /\ works' = [works EXCEPT ![t] = Append(@, Item("accepted", NoSink, 0))]
    /\ acc' = [acc EXCEPT ![t][l] = [pc |-> "accept", cur |-> listener[t]]]
    /\ UNCHANGED <<status, err, listener, sshClient, connectors, cCount, conns, mu,
                   lsOpen, lsCount, sockOpen, wt, cps, callVars, fleetVars,
                   envVars, histVars>>

\* t.works <- the item of the accept error, and return: the deferred Close
\* of the listener the task was started for
AccSendErr(t, l) ==
    /\ acc[t][l].pc = "sendErr"
    /\ Room(works[t], WorksCap)
    /\ works' = [works EXCEPT ![t] = Append(@, Item("acceptErr", NoSink, 0))]
    /\ lsOpen' = [lsOpen EXCEPT ![t] = @ \ {l}]
    /\ acc' = [acc EXCEPT ![t][l].pc = "done"]
    /\ UNCHANGED <<status, err, listener, sshClient, connectors, cCount, conns, mu,
                   lsCount, sockOpen, wt, cps, callVars, fleetVars,
                   envVars, histVars>>

\* ---------------------------------------------------------- the copy tasks
\* Connector.forward / localToRemote: io.Copy returns (the stream ended, or
\* the sockets were closed), then Connector.Close: breakDown ...
CopyEnd(t, c) ==
    /\ cps[t][c].copy > 0
    /\ cps' = [cps EXCEPT ![t][c] = [copy |-> @.copy - 1, send |-> @.send + 1]]
    /\ sockOpen' = [sockOpen EXCEPT ![t] = @ \ {c}]
    /\ UNCHANGED <<status, err, listener, sshClient, connectors, cCount, conns, works, mu,
                   lsOpen, lsCount, wt, acc, callVars, fleetVars, envVars, histVars>>

\* ... and Tunnel.closeConnector: t.works <- the removal of the connector
CopySend(t, c) ==
    /\ cps[t][c].send > 0
    /\ Room(works[t], WorksCap)
    /\ works' = [works EXCEPT ![t] = Append(@, Item("delete", NoSink, c))]
    /\ cps' = [cps EXCEPT ![t][c].send = @ - 1]
    /\ UNCHANGED <<status, err, listener, sshClient, connectors, cCount, conns, mu,
                   lsOpen, lsCount, sockOpen, wt, acc, callVars, fleetVars,
                   envVars, histVars>>


\* ------------------------------------------------------- the Tunnel API
\* a thread in Down, Destroy or Reconnect returns to its caller
Return(c) == IF c = DispThread THEN IdleCall
             ELSE [IdleCall EXCEPT !.pc = "done", !.sink = calls[c].sink]

\* the check of the calls with the bug of Down queueing its work item on a
\* tunnel that is not running
ApiCheckDownSends(c) ==
    LET cl == calls[c]
        t == cl.t IN
    /\ cl.pc = "check"
    /\ cl.op \in {"down", "destroy", "reconnect"}
    /\ mu[t] = Free
    /\ \/ /\ running(t)
          /\ calls' = [calls EXCEPT ![c].pc = "send"]
          /\ UNCHANGED <<status, err, mu, updatedTunnels, writer, log, sinks, wt>>
       \/ /\ ~running(t) /\ cl.op = "down"
          /\ calls' = [calls EXCEPT ![c].pc = "send"]
          /\ UNCHANGED <<status, err, mu, updatedTunnels, writer, log, sinks, wt>>
       \/ /\ ~running(t) /\ cl.op = "destroy"
          /\ SetStatusError(t, StatusRemoved, NoErr, Caller(c))
          /\ calls' = [calls EXCEPT ![c].pc = "sig"]
          /\ UNCHANGED <<sinks, wt>>
       \/ /\ ~running(t) /\ cl.op = "reconnect"
          /\ FreeSlots(t) # {}
          /\ wt' = SpawnUp(t)
          /\ calls' = [calls EXCEPT ![c].pc = "send"]
          /\ UNCHANGED <<status, err, mu, updatedTunnels, writer, log, sinks>>
    /\ UNCHANGED <<listener, sshClient, connectors, cCount, conns, works,
                   lsOpen, lsCount, sockOpen, acc, cps, fleetRest, envVars, destroyed>>

\* Down / Destroy / Reconnect up to the send on t.works:
\*   Down on a tunnel that is not running signals the sink and returns;
\*   Destroy on one publishes Removed itself, signals and returns;
\*   Reconnect on one starts go t.Up(), and goes on to the send.
ApiCheck(c) ==
    LET cl == calls[c]
        t == cl.t IN
    /\ cl.pc = "check"
    /\ cl.op \in {"down", "destroy", "reconnect"}
    /\ mu[t] = Free
    /\ \/ /\ running(t)
          /\ calls' = [calls EXCEPT ![c].pc = "send"]
          /\ UNCHANGED <<status, err, mu, updatedTunnels, writer, log, sinks, wt>>
       \/ /\ ~running(t) /\ cl.op = "down"
          /\ SinkRoom(cl.sink)
          /\ sinks' = Signal(cl.sink)
          /\ calls' = [calls EXCEPT ![c] = Return(c)]
          /\ UNCHANGED <<status, err, mu, updatedTunnels, writer, log, wt>>
       \/ /\ ~running(t) /\ cl.op = "destroy"
          /\ SetStatusError(t, StatusRemoved, NoErr, Caller(c))
          /\ calls' = [calls EXCEPT ![c].pc = "sig"]
          /\ UNCHANGED <<sinks, wt>>
       \/ /\ ~running(t) /\ cl.op = "reconnect"
          /\ FreeSlots(t) # {}
          /\ wt' = SpawnUp(t)
          /\ calls' = [calls EXCEPT ![c].pc = "send"]
          /\ UNCHANGED <<status, err, mu, updatedTunnels, writer, log, sinks>>
    /\ UNCHANGED <<listener, sshClient, connectors, cCount, conns, works,
                   lsOpen, lsCount, sockOpen, acc, cps, fleetRest, envVars, destroyed>>

\* Destroy on a tunnel that is not running, after setStatusError: the sink
ApiSignal(c) ==
    LET cl == calls[c] IN
    /\ cl.pc = "sig"
    /\ mu[cl.t] # Caller(c)
    /\ sinks' = Signal(cl.sink)
    /\ destroyed' = [destroyed EXCEPT ![cl.t] = @ \/ cl.sink # NoSink]
    /\ calls' = [calls EXCEPT ![c] = Return(c)]
    /\ UNCHANGED <<tunnelVars, taskVars, fleetVars, envVars, writer, log>>

\* t.works <- the work item of the call
ApiSend(c) ==
    LET cl == calls[c] IN
    /\ cl.pc = "send"
    /\ Room(works[cl.t], WorksCap)
    /\ works' = [works EXCEPT ![cl.t] = Append(@, Item(cl.op, cl.sink, 0))]
    /\ calls' = [calls EXCEPT ![c] = Return(c)]
    /\ UNCHANGED <<status, err, listener, sshClient, connectors, cCount, conns, mu,
                   lsOpen, lsCount, sockOpen, taskVars, sinks, fleetVars,
                   envVars, histVars>>


\* the caller starts Down, Destroy or Reconnect on an established tunnel, with
\* or without a completion sink (the sink of call c is c), when its previous
\* call has returned
CallStart(c, t, op, withSink) ==
    /\ calls[c].pc = "idle"
    /\ c = 1 \/ calls[c - 1].pc = "done"
    /\ est[t].pc = "registered"
    /\ calls' = [calls EXCEPT ![c] = [pc |-> "check", op |-> op, t |-> t,
                                       sink |-> IF withSink THEN c ELSE NoSink,
                                       late |-> destroyed[t]]]
    /\ UNCHANGED <<tunnelVars, taskVars, sinks, fleetVars, envVars, histVars>>

\* a caller calls Tunnel.Up on an established tunnel: its goroutine is the one
\* that runs Up, and the call is over for the caller's sequence of calls
ExtUp(c, t) ==
    /\ calls[c].pc = "idle"
    /\ c = 1 \/ calls[c - 1].pc = "done"
    /\ est[t].pc = "registered"
    /\ FreeSlots(t) # {}
    /\ wt' = SpawnUp(t)
    /\ calls' = [calls EXCEPT ![c] = [IdleCall EXCEPT !.pc = "done"]]
    /\ UNCHANGED <<tunnelVars, acc, cps, sinks, fleetVars, envVars, histVars>>

\* the SSH session of a tunnel is lost
SshDrop(t) ==
    /\ sshClient[t] = "open"
    /\ failsLeft > 0
    /\ failsLeft' = failsLeft - 1
    /\ sshClient' = [sshClient EXCEPT ![t] = "lost"]
    /\ UNCHANGED <<status, err, listener, connectors, cCount, conns, works, mu,
                   lsOpen, lsCount, sockOpen, taskVars, callVars, fleetVars,
                   connsLeft, histVars>>

\* ---------------------------------------------------------------- Mario
\* atomic.AddInt32(&m.tunnelCount, 1): the sum in 32 bits, two's complement
MaxInt32 == 2147483647
AddInt32(n) == IF n = MaxInt32 THEN -MaxInt32 - 1 ELSE n + 1

\* NewMario: the heartbeat is stored in CheckAliveInterval as it is given
NewMario(heartbeat) == heartbeat

\* NewTunnel: sshTimeout becomes the dial timeout and healthCheckInterval
NewTunnelInterval(sshTimeout) == sshTimeout

\* Mario.wrap: a TunnelInfo with the next ID, named by the ID
wrap(n) == View(n, "id")

\* Establish with the bug of taking the ID from the size of the registry
EstWrapLen(t, named, noConnect) ==
    LET n == Cardinality({u \in Tunnels : wrappers[u] # NoView}) + 1 IN
    /\ est[t].pc = "none"
    /\ tunnelCount' = n
    /\ beat' = [beat EXCEPT !.of[t] = NewTunnelInterval(beat.mario)]
    /\ UNCHANGED dash
    /\ est' = [est EXCEPT ![t] =
                 [pc |-> "wrapped",
                  view |-> IF named THEN [wrap(n) EXCEPT !.name = "given"] ELSE wrap(n),
                  go |-> ~noConnect]]
    /\ UNCHANGED <<tunnelVars, taskVars, callVars, wrappers, actions,
                   updatedTunnels, publishWrapper, disp, all, envVars, histVars>>

\* the arguments of Establish, as far as its checks tell them apart: the key
\* file, the local address, the server and the remote address
EstArgs ==
    [key : {"ok", "unreadable", "unparsable"},
     local : {"ok", "noColon", "badPort"},
     server : {"ok", "noUser"},
     remote : {"ok", "noPort"}]

\* NewTunnel: the checks in their order; the key is read and parsed last
NewTunnelErr(a) ==
    CASE a.local = "noColon" -> "errInvalidLocalAddr"
      [] a.local = "badPort" -> "errAtoi"
      [] a.server = "noUser" -> "errAnonymous"
      [] a.remote = "noPort" -> "errMissedPort"
      [] a.key = "unparsable" -> "errParsePrivateKey"
      [] OTHER -> NoErr

\* Mario.Establish up to NewTunnel: ioutil.ReadFile of the key, then NewTunnel
EstablishErr(a) == IF a.key = "unreadable" THEN "errReadFile" ELSE NewTunnelErr(a)

\* Establish with the bug of calling m.wrap before it looks at the error
EstFailWrapFirst(t) ==
    /\ est[t].pc = "none"
    /\ tunnelCount' = AddInt32(tunnelCount)
    /\ est' = [est EXCEPT ![t].pc = "failed"]
    /\ UNCHANGED <<beat, dash>>
    /\ UNCHANGED <<tunnelVars, taskVars, callVars, wrappers, actions,
                   updatedTunnels, publishWrapper, disp, all, envVars, histVars>>

\* Mario.Establish returns the error of ReadFile or NewTunnel
EstFail(t) ==
    /\ est[t].pc = "none"
    /\ est' = [est EXCEPT ![t].pc = "failed"]
    /\ UNCHANGED <<beat, dash>>
    /\ UNCHANGED <<tunnelVars, taskVars, callVars, tunnelCount, wrappers, actions,
                   updatedTunnels, publishWrapper, disp, all, envVars, histVars>>

\* m.wm is read-locked: ApplyAll holds it from its first line until it has
\* called the method of every registered tunnel, Stop from after its stop
\* signal until it returns
WmRLocked == all.pc \in {"loop", "sloop", "snew", "sdown", "swait"}

\* Mario.Establish up to m.wrap(tn): the key is read, NewTunnel succeeded
EstWrap(t, named, noConnect) ==
    /\ est[t].pc = "none"
    /\ tunnelCount' = AddInt32(tunnelCount)
    /\ beat' = [beat EXCEPT !.of[t] = NewTunnelInterval(beat.mario)]
    /\ UNCHANGED dash
    /\ est' = [est EXCEPT ![t] =
                 [pc |-> "wrapped",
                  view |-> IF named THEN [wrap(tunnelCount') EXCEPT !.name = "given"]
                                    ELSE wrap(tunnelCount'),
                  go |-> ~noConnect]]
    /\ UNCHANGED <<tunnelVars, taskVars, callVars, wrappers, actions,
                   updatedTunnels, publishWrapper, disp, all, envVars, histVars>>

\* Mario.Establish called with arguments a
EstCall(t, a, named, noConnect) ==
    IF EstablishErr(a) = NoErr THEN EstWrap(t, named, noConnect) ELSE EstFail(t)

\* Establish with the bug of starting the tunnel without putting its
\* TunnelInfo into the registry
EstInsertNoRegister(t) ==
    /\ est[t].pc = "wrapped"
    /\ ~WmRLocked
    /\ wrappers' = wrappers
    /\ est' = [est EXCEPT ![t].pc = "registered", ![t].go = FALSE]
    /\ UNCHANGED <<beat, dash>>
    /\ wt' = IF est[t].go THEN SpawnUp(t) ELSE wt
    /\ UNCHANGED <<tunnelVars, acc, cps, callVars, tunnelCount, actions,
                   updatedTunnels, publishWrapper, disp, all, envVars, histVars>>

\* Mario.Establish: insert into the registry under the lock, go tn.Up()
\* unless noConnect, return the TunnelInfo
EstInsert(t) ==
    /\ est[t].pc = "wrapped"
    /\ ~WmRLocked
    /\ wrappers' = [wrappers EXCEPT ![t] = est[t].view]
    /\ est' = [est EXCEPT ![t].pc = "registered", ![t].go = FALSE]
    /\ UNCHANGED <<beat, dash>>
    /\ wt' = IF est[t].go THEN SpawnUp(t) ELSE wt
    /\ UNCHANGED <<tunnelVars, acc, cps, callVars, tunnelCount, actions,
                   updatedTunnels, publishWrapper, disp, all, envVars, histVars>>

\* the dispatcher of Mario.Monitor, case raw := <-m.updatedTunnels: look the
\* tunnel up under the lock, wrap it as "unknown" when it is not registered,
\* and m.publishWrapper <- wrapped
DispStatus ==
    /\ disp.pc = "select"
    /\ ~WmRLocked
    /\ calls[DispThread].pc = "idle"
    /\ updatedTunnels # <<>>
    /\ Room(publishWrapper, PublishCap)
    /\ LET raw == Head(updatedTunnels)
           known == wrappers[raw] # NoView
           wrapped == IF known THEN wrappers[raw]
                      ELSE [wrap(AddInt32(tunnelCount)) EXCEPT !.name = "unknown"] IN
          /\ updatedTunnels' = Tail(updatedTunnels)
          /\ tunnelCount' = IF known THEN tunnelCount ELSE AddInt32(tunnelCount)
          /\ wrappers' = [wrappers EXCEPT ![raw] = wrapped]
          /\ publishWrapper' = Append(publishWrapper, wrapped)
    /\ UNCHANGED <<tunnelVars, taskVars, callVars, actions, disp, all, est, beat, dash,
                   envVars, histVars>>

\* the subscriber of the stream Monitor returned takes the next TunnelInfo
SubRecv ==
    /\ publishWrapper # <<>>
    /\ publishWrapper' = Tail(publishWrapper)
    /\ UNCHANGED <<tunnelVars, taskVars, callVars, tunnelCount, wrappers, actions,
                   updatedTunnels, disp, all, est, beat, dash, envVars, histVars>>

\* the dispatcher, case raw := <-m.updatedTunnels, while ApplyAll holds the
\* read lock: the receive is done, and m.wm.Lock() blocks
DispRecv ==
    /\ disp.pc = "select"
    /\ calls[DispThread].pc = "idle"
    /\ WmRLocked
    /\ updatedTunnels # <<>>
    /\ disp' = [disp EXCEPT !.pc = "lock", !.raw = Head(updatedTunnels)]
    /\ updatedTunnels' = Tail(updatedTunnels)
    /\ UNCHANGED <<tunnelVars, taskVars, callVars, tunnelCount, wrappers, actions,
                   publishWrapper, all, est, beat, dash, envVars, histVars>>

\* the dispatcher gets m.wm.Lock(): look up, wrap an unknown tunnel, unlock
\* and m.publishWrapper <- wrapped
DispLocked ==
    /\ disp.pc = "lock"
    /\ ~WmRLocked
    /\ Room(publishWrapper, PublishCap)
    /\ LET raw == disp.raw
           known == wrappers[raw] # NoView
           wrapped == IF known THEN wrappers[raw]
                      ELSE [wrap(AddInt32(tunnelCount)) EXCEPT !.name = "unknown"] IN
          /\ tunnelCount' = IF known THEN tunnelCount ELSE AddInt32(tunnelCount)
          /\ wrappers' = [wrappers EXCEPT ![raw] = wrapped]
          /\ publishWrapper' = Append(publishWrapper, wrapped)
    /\ disp' = IdleDisp
    /\ UNCHANGED <<tunnelVars, taskVars, callVars, actions, updatedTunnels,
                   all, est, beat, dash, envVars, histVars>>

\* Mario.ApplyAll(actClose, true): m.wm.RLock(), and waiting is made with
\* room for len(m.wrappers) values
AllStart ==
    /\ all.pc = "idle"
    /\ LET reg == {t \in Tunnels : wrappers[t] # NoView} IN
          all' = [IdleAll EXCEPT !.pc = "loop", !.op = "close", !.reg = reg, !.todo = reg,
                                 !.n = Cardinality(reg)]
    /\ UNCHANGED <<tunnelVars, taskVars, callVars, tunnelCount, wrappers, actions,
                   updatedTunnels, publishWrapper, disp, est, beat, dash, envVars, histVars>>

\* for tn := range m.wrappers { t.Down(waiting) }: the next tunnel, in the
\* order of the map, once the Down of the one before has returned
AllCall ==
    /\ all.pc = "loop"
    /\ calls[AllThread].pc \in {"idle", "done"}
    /\ \E t \in all.todo :
          /\ all' = [all EXCEPT !.todo = @ \ {t}]
          /\ calls' = [calls EXCEPT ![AllThread] =
                          [pc |-> "check", op |-> "down", t |-> t,
                           sink |-> AllThread, late |-> destroyed[t]]]
    /\ UNCHANGED <<tunnelVars, taskVars, sinks, tunnelCount, wrappers, actions,
                   updatedTunnels, publishWrapper, disp, est, beat, dash, envVars, histVars>>

\* m.wm.RUnlock() after the loop, and into waitTimeout; with no registered
\* tunnel waitTimeout returns at once
AllUnlock ==
    /\ all.pc = "loop"
    /\ all.todo = {}
    /\ calls[AllThread].pc \in {"idle", "done"}
    /\ all' = [all EXCEPT !.pc = IF all.n <= 0 THEN "done" ELSE "wait"]
    /\ UNCHANGED <<tunnelVars, taskVars, callVars, tunnelCount, wrappers, actions,
                   updatedTunnels, publishWrapper, disp, est, beat, dash, envVars, histVars>>

\* Mario.waitTimeout: it returns when it has received count values from
\* waiting, or when its timer fires
AllWait ==
    /\ all.pc = "wait"
    /\ \/ /\ sinks[AllThread] >= all.n
          /\ all' = [all EXCEPT !.pc = "done"]
       \/ /\ sinks[AllThread] < all.n
          /\ all' = [all EXCEPT !.pc = "done", !.timeout = TRUE]
    /\ UNCHANGED <<tunnelVars, taskVars, callVars, tunnelCount, wrappers, actions,
                   updatedTunnels, publishWrapper, disp, est, beat, dash, envVars, histVars>>

\* Mario.Stop: m.stop <- struct{}{} on the unbuffered channel, which the
\* dispatcher takes at its select; its `break` leaves the select, not the
\* for loop, so the dispatcher is at its select again
StopSend ==
    /\ all.pc = "idle"
    /\ disp.pc = "select"
    /\ calls[DispThread].pc = "idle"
    /\ all' = [IdleAll EXCEPT !.pc = "stopped", !.op = "stop"]
    /\ UNCHANGED <<tunnelVars, taskVars, callVars, tunnelCount, wrappers, actions,
                   updatedTunnels, publishWrapper, disp, est, beat, dash, envVars, histVars>>

\* Mario.Stop: m.wm.RLock(), released when Stop returns, and waiting is made
\* with room for len(m.wrappers) values
StopLock ==
    /\ all.pc = "stopped"
    /\ LET reg == {t \in Tunnels : wrappers[t] # NoView} IN
          all' = [all EXCEPT !.pc = "sloop", !.reg = reg, !.todo = reg,
                             !.n = Cardinality(reg)]
    /\ UNCHANGED <<tunnelVars, taskVars, callVars, tunnelCount, wrappers, actions,
                   updatedTunnels, publishWrapper, disp, est, beat, dash, envVars, histVars>>

\* for tn := range m.wrappers: the next tunnel, and tn.Status() == StatusNew
StopPick ==
    /\ all.pc = "sloop"
    /\ calls[AllThread].pc \in {"idle", "done"}
    /\ \E t \in all.todo :
          /\ mu[t] = Free
          /\ all' = [all EXCEPT !.todo = @ \ {t}, !.cur = t,
                                !.pc = IF status[t] = StatusNew THEN "snew" ELSE "sdown"]
    /\ UNCHANGED <<tunnelVars, taskVars, callVars, tunnelCount, wrappers, actions,
                   updatedTunnels, publishWrapper, disp, est, beat, dash, envVars, histVars>>

\* waiting <- nil for a tunnel in status New
StopNewSend ==
    /\ all.pc = "snew"
    /\ SinkRoom(AllThread)
    /\ sinks' = Signal(AllThread)
    /\ all' = [all EXCEPT !.pc = "sdown"]
    /\ UNCHANGED <<tunnelVars, taskVars, calls, tunnelCount, wrappers, actions,
                   updatedTunnels, publishWrapper, disp, est, beat, dash, envVars, histVars>>

\* tn.Down(waiting)
StopDown ==
    /\ all.pc = "sdown"
    /\ all' = [all EXCEPT !.pc = "sloop"]
    /\ calls' = [calls EXCEPT ![AllThread] =
                    [pc |-> "check", op |-> "down", t |-> all.cur,
                     sink |-> AllThread, late |-> destroyed[all.cur]]]
    /\ UNCHANGED <<tunnelVars, taskVars, sinks, tunnelCount, wrappers, actions,
                   updatedTunnels, publishWrapper, disp, est, beat, dash, envVars, histVars>>

\* Mario.Stop: after the loop, m.waitTimeout(2*time.Second, waiting, count)
StopWaitStart ==
    /\ all.pc = "sloop"
    /\ all.todo = {}
    /\ calls[AllThread].pc \in {"idle", "done"}
    /\ all' = [all EXCEPT !.pc = IF all.n <= 0 THEN "done" ELSE "swait"]
    /\ UNCHANGED <<tunnelVars, taskVars, callVars, tunnelCount, wrappers, actions,
                   updatedTunnels, publishWrapper, disp, est, beat, dash, envVars, histVars>>

\* Mario.waitTimeout in Stop: count values received, or the timer; Stop
\* returns and its deferred m.wm.RUnlock() runs
StopWait ==
    /\ all.pc = "swait"
    /\ \/ /\ sinks[AllThread] >= all.n
          /\ all' = [all EXCEPT !.pc = "done"]
       \/ /\ sinks[AllThread] < all.n
          /\ all' = [all EXCEPT !.pc = "done", !.timeout = TRUE]
    /\ UNCHANGED <<tunnelVars, taskVars, callVars, tunnelCount, wrappers, actions,
                   updatedTunnels, publishWrapper, disp, est, beat, dash, envVars, histVars>>

\* a tnAction (manage.go:34-38)
Action(op, t, sink) == [act |-> op, tn |-> t, err |-> sink]

\* a caller calls Mario.Up(tn, waitDone) on a registered tunnel
MarioUp(c, t) ==
    /\ calls[c].pc = "idle"
    /\ c = 1 \/ calls[c - 1].pc = "done"
    /\ est[t].pc = "registered"
    /\ calls' = [calls EXCEPT ![c] = [pc |-> "mup", op |-> "reconnect", t |-> t,
                                       sink |-> c, late |-> destroyed[t]]]
    /\ UNCHANGED <<tunnelVars, taskVars, sinks, fleetVars, envVars, histVars>>

\* Mario.Up with the bug of going on to the action queue after it has
\* signalled success for a Connected tunnel
MarioUpCheckEnqueue(c) ==
    LET cl == calls[c] IN
    /\ cl.pc = "mup"
    /\ mu[cl.t] = Free
    /\ IF Has(status[cl.t], StatusConnected)
          THEN /\ sinks' = Signal(cl.sink)
               /\ calls' = [calls EXCEPT ![c].pc = "act"]
          ELSE /\ calls' = [calls EXCEPT ![c].pc = "act"]
               /\ UNCHANGED sinks
    /\ UNCHANGED <<tunnelVars, taskVars, fleetVars, envVars, histVars>>

\* Mario.Up: tn.t.Status() under the read lock; on a status that includes
\* Connected send nil on waitDone and return, else go on to m.actions <- at
MarioUpCheck(c) ==
    LET cl == calls[c] IN
    /\ cl.pc = "mup"
    /\ mu[cl.t] = Free
    /\ IF Has(status[cl.t], StatusConnected)
          THEN /\ sinks' = Signal(cl.sink)
               /\ calls' = [calls EXCEPT ![c] = Return(c)]
          ELSE /\ calls' = [calls EXCEPT ![c].pc = "act"]
               /\ UNCHANGED sinks
    /\ UNCHANGED <<tunnelVars, taskVars, fleetVars, envVars, histVars>>

\* a caller calls Mario.Close(tn, waitDone) on a registered tunnel
MarioClose(c, t) ==
    /\ calls[c].pc = "idle"
    /\ c = 1 \/ calls[c - 1].pc = "done"
    /\ est[t].pc = "registered"
    /\ calls' = [calls EXCEPT ![c] = [pc |-> "act", op |-> "down", t |-> t,
                                       sink |-> c, late |-> destroyed[t]]]
    /\ UNCHANGED <<tunnelVars, taskVars, sinks, fleetVars, envVars, histVars>>

\* m.actions <- at, in Mario.Up and Mario.Close
MarioSend(c) ==
    LET cl == calls[c] IN
    /\ cl.pc = "act"
    /\ Room(actions, ActionsCap)
    /\ actions' = Append(actions, Action(cl.op, cl.t, cl.sink))
    /\ calls' = [calls EXCEPT ![c] = Return(c)]
    /\ UNCHANGED <<tunnelVars, taskVars, sinks, tunnelCount, wrappers,
                   updatedTunnels, publishWrapper, disp, all, est, beat, dash, envVars, histVars>>

\* the dispatcher of Mario.Monitor, case action := <-m.actions: it calls
\* Down or Reconnect of the tunnel itself, with the sink of the action
DispAction ==
    /\ disp.pc = "select"
    /\ calls[DispThread].pc = "idle"
    /\ actions # <<>>
    /\ LET a == Head(actions) IN
          calls' = [calls EXCEPT ![DispThread] =
                       [pc |-> "check", op |-> a.act, t |-> a.tn,
                        sink |-> a.err, late |-> destroyed[a.tn]]]
    /\ actions' = Tail(actions)
    /\ UNCHANGED <<tunnelVars, taskVars, sinks, tunnelCount, wrappers,
                   updatedTunnels, publishWrapper, disp, all, est, beat, dash, envVars, histVars>>

\* -------------------------------------------------------------- Dashboard
MaxViews == 8

\* the IDs of the views the Dashboard receives: tunnelCount is an int32 that
\* AddInt32 takes below zero in the end
ViewIDs == (-2)..(MaxViews - 3)

NoDash == [tunnels |-> <<>>, got |-> {}, last |-> 0]

\* sort.Search(n, f): the smallest index in [0, n) at which f is true, or n,
\* by bisection; f is "the ID at the index is >= id", indices from 0
RECURSIVE Bisect(_, _, _, _)
Bisect(tns, id, i, j) ==
    IF i >= j THEN i
    ELSE LET h == (i + j) \div 2 IN
         IF ~(tns[h + 1] >= id) THEN Bisect(tns, id, h + 1, j)
         ELSE Bisect(tns, id, i, h)

Search(tns, id) == Bisect(tns, id, 0, Len(tns))

\* tnSorter(byID).sort: sort.Sort with Less "the ID is smaller"
RECURSIVE SortByID(_)
SortByID(tns) ==
    IF tns = <<>> THEN <<>>
    ELSE LET m == CHOOSE i \in 1..Len(tns) : \A j \in 1..Len(tns) : tns[i] <= tns[j]
         IN <<tns[m]>> \o SortByID(SubSeq(tns, 1, m - 1) \o SubSeq(tns, m + 1, Len(tns)))

\* the body of the receive loop with the bug of never sorting after append
updateTunnelInfoNoSort(tns, id) ==
    LET idx == Search(tns, id) IN
    IF idx < Len(tns) /\ tns[idx + 1] = id THEN tns
    ELSE Append(tns, id)

\* Dashboard.updateTunnelInfo, the body of the receive loop for one view: a
\* view whose ID is found only updates its row; else the view is appended,
\* and the list is sorted if it has one element or the ID of the view is not
\* above the ID of the last element, which after the append is the view itself
updateTunnelInfo(tns, id) ==
    LET idx == Search(tns, id) IN
    IF idx < Len(tns) /\ tns[idx + 1] = id THEN tns
    ELSE LET app == Append(tns, id) IN
         IF Len(app) <= 1 \/ id <= app[Len(app)] THEN SortByID(app) ELSE app

\* Dashboard.getTunnel by ID: the index of the view in d.tunnels, from 1, or 0
\* for nil
getTunnel(tns, id) ==
    LET idx == Search(tns, id) IN
    IF idx < Len(tns) /\ tns[idx + 1] = id THEN idx + 1 ELSE 0

\* the receive loop takes a view from tunnelRecv, sent by Dashboard.NewTunnel
\* or by the forwarder of the status stream
DashRecv(id) ==
    /\ dash' = [tunnels |-> updateTunnelInfo(dash.tunnels, id),
                got |-> dash.got \cup {id}, last |-> id]
    /\ UNCHANGED <<tunnelVars, taskVars, callVars, tunnelCount, wrappers, actions,
                   updatedTunnels, publishWrapper, disp, all, est, beat, envVars,
                   histVars>>

\* ------------------------------------------------------------------ Init
\* NewMario and Monitor have run; no tunnel is established yet; n local
\* connections will come
InitConns(n) ==
    /\ status = [t \in Tunnels |-> StatusNew]
    /\ err = [t \in Tunnels |-> NoErr]
    /\ listener = [t \in Tunnels |-> 0]
    /\ sshClient = [t \in Tunnels |-> "nil"]
    /\ connectors = [t \in Tunnels |-> {}]
    /\ cCount = [t \in Tunnels |-> 0]
    /\ conns = [t \in Tunnels |-> 0]
    /\ works = [t \in Tunnels |-> <<>>]
    /\ mu = [t \in Tunnels |-> Free]
    /\ lsOpen = [t \in Tunnels |-> {}]
    /\ lsCount = [t \in Tunnels |-> 0]
    /\ sockOpen = [t \in Tunnels |-> {}]
    /\ wt = [t \in Tunnels |-> [k \in Tasks |-> IdleTask]]
    /\ acc = [t \in Tunnels |-> [l \in Listeners |-> IdleAccept]]
    /\ cps = [t \in Tunnels |-> [c \in 1..MaxConns |-> [copy |-> 0, send |-> 0]]]
    /\ calls = [c \in Threads |-> IdleCall]
    /\ sinks = [c \in Sinks |-> 0]
    /\ tunnelCount = 0
    /\ wrappers = [t \in Tunnels |-> NoView]
    /\ actions = <<>>
    /\ updatedTunnels = <<>>
    /\ publishWrapper = <<>>
    /\ disp = IdleDisp
    /\ all = IdleAll
    /\ est = [t \in Tunnels |-> IdleEst]
    /\ failsLeft = MaxFails
    /\ connsLeft = n
    /\ dash = NoDash
    /\ writer = [t \in Tunnels |-> {}]
    /\ destroyed = [t \in Tunnels |-> FALSE]

InitState == InitConns(OneConn)

NoLog == [t \in Tunnels |-> <<>>]

\* view.go calls NewMario(pk, 15*time.Second, log)
DefaultBeat == 15

\* the state after NewMario(pk, heartbeat, logger); no tunnel has an interval
NewBeat(heartbeat) == [mario |-> NewMario(heartbeat), of |-> [t \in Tunnels |-> 0]]

Init == InitState /\ log = [on |-> FALSE, of |-> NoLog] /\ beat = NewBeat(DefaultBeat)

\* the same state, with the published statuses recorded
InitLog == InitState /\ log = [on |-> TRUE, of |-> NoLog] /\ beat = NewBeat(DefaultBeat)

\* the same state, with two local connections to come
InitTwo == InitConns(MaxConns) /\ log = [on |-> FALSE, of |-> NoLog]
                                /\ beat = NewBeat(DefaultBeat)

\* the heartbeats handed to NewMario, seconds
Heartbeats == {0, 1, 14, 15, 16, 30, 60}

\* NewMario called with any of these heartbeats
InitBeat ==
    /\ InitState
    /\ log = [on |-> FALSE, of |-> NoLog]
    /\ \E heartbeat \in Heartbeats : beat = NewBeat(heartbeat)

\* the steps of the work tasks of tunnel t
WorkNext(t) ==
    \/ \E k \in Tasks :
         \/ WtUp(t, k) \/ WtDial(t, k) \/ WtListenCheck(t, k)
         \/ WtListen(t, k) \/ WtConnected(t, k) \/ WtFcRet(t, k) \/ WtPost(t, k)
         \/ WtExit(t, k) \/ WtTake(t, k) \/ WtTick(t, k) \/ WtExecDown(t, k)
         \/ WtCloseListener(t, k) \/ WtExecAcceptErr(t, k)
    \/ \E l \in Listeners : AccFail(t, l) \/ AccSendErr(t, l)
    \/ FinishPublish(t)
    \/ SshDrop(t)

\* local connections to tunnel t: accepted, forwarded, ended
ConnNext(t) ==
    \/ \E l \in Listeners : AccAccept(t, l) \/ AccSendConn(t, l)
    \/ \E k \in Tasks : WtNewConnector(t, k)
    \/ \E c \in 1..MaxConns : CopyEnd(t, c) \/ CopySend(t, c)

FleetNext == DispStatus \/ SubRecv

\* a caller's next call on tunnel t
CallNext(c, t) ==
    \/ CallStart(c, t, "down", TRUE)
    \/ CallStart(c, t, "destroy", TRUE)
    \/ \E s \in BOOLEAN : CallStart(c, t, "reconnect", s)
    \/ ExtUp(c, t)

ApiNext(c) == ApiCheck(c) \/ ApiSignal(c) \/ ApiSend(c)

\* one tunnel without local connections, every operation of the Tunnel API
Next ==
    \/ \E noConnect \in BOOLEAN : EstWrap(1, FALSE, noConnect)
    \/ EstInsert(1)
    \/ WorkNext(1)
    \/ \E c \in Calls : CallNext(c, 1) \/ ApiNext(c)
    \/ FleetNext

Spec == Init /\ [][Next]_vars

\* one tunnel with local connections and one call of the Tunnel API
NextConn ==
    \/ EstWrap(1, FALSE, FALSE)
    \/ EstInsert(1)
    \/ WorkNext(1)
    \/ ConnNext(1)
    \/ CallNext(1, 1) \/ ApiNext(1)
    \/ FleetNext

SpecConn == Init /\ [][NextConn]_vars

\* the fleet: concurrent calls of Establish, named or not, connecting or not,
\* the tunnels' work tasks, and one call of Down or Destroy
NextFleet ==
    \/ \E t \in Tunnels, named \in BOOLEAN, noConnect \in BOOLEAN :
         EstWrap(t, named, noConnect)
    \/ \E t \in Tunnels : EstInsert(t) \/ WorkNext(t)
    \/ \E t \in Tunnels : CallStart(1, t, "down", TRUE) \/ CallStart(1, t, "destroy", TRUE)
    \/ ApiNext(1)
    \/ FleetNext

SpecFleet == Init /\ [][NextFleet]_vars

\* one tunnel and one call, under the scheduling of the Go runtime: a
\* goroutine that can take a step takes one (the ticker fires, a channel
\* operation that can proceed proceeds); the callers and the loss of the SSH
\* session are the environment and owe no step
TaskNext(t, k) ==
    \/ WtUp(t, k) \/ WtDial(t, k) \/ WtListenCheck(t, k)
    \/ WtListen(t, k) \/ WtConnected(t, k) \/ WtFcRet(t, k) \/ WtPost(t, k)
    \/ WtExit(t, k) \/ WtTake(t, k) \/ WtTick(t, k) \/ WtExecDown(t, k)
    \/ WtCloseListener(t, k) \/ WtExecAcceptErr(t, k)

AcceptNext(t) == \E l \in Listeners : AccFail(t, l) \/ AccSendErr(t, l)

NextLive ==
    \/ \E noConnect \in BOOLEAN : EstWrap(1, FALSE, noConnect)
    \/ EstInsert(1)
    \/ WorkNext(1)
    \/ CallNext(1, 1) \/ ApiNext(1)
    \/ FleetNext

Fairness ==
    /\ \A k \in Tasks : WF_vars(TaskNext(1, k))
    /\ WF_vars(AcceptNext(1))
    /\ WF_vars(FinishPublish(1))
    /\ WF_vars(EstInsert(1))
    /\ WF_vars(ApiNext(1))
    /\ WF_vars(DispStatus)
    /\ WF_vars(SubRecv)

SpecLive == Init /\ [][NextLive]_vars /\ Fairness

\* one tunnel left to itself after Establish: its work task, the health
\* check, local connections and the failures of the environment, with the
\* published statuses recorded; no call of the Tunnel API
AutoTask(t, k) ==
    \/ WtUp(t, k) \/ WtDial(t, k) \/ WtListenCheck(t, k)
    \/ WtListen(t, k) \/ WtConnected(t, k) \/ WtFcRet(t, k) \/ WtPost(t, k)
    \/ WtExit(t, k) \/ WtTake(t, k) \/ WtTick(t, k)

NextAuto ==
    \/ EstWrap(1, FALSE, FALSE)
    \/ EstInsert(1)
    \/ \E k \in Tasks : AutoTask(1, k)
    \/ FinishPublish(1)
    \/ SshDrop(1)
    \/ ConnNext(1)
    \/ FleetNext

SpecAuto == InitLog /\ [][NextAuto]_vars

\* one tunnel driven through the fleet: Mario.Up and Mario.Close put actions
\* on the queue, and the dispatcher executes them on the tunnel
MarioNext(c, t) ==
    \/ MarioUp(c, t) \/ MarioClose(c, t)
    \/ MarioUpCheck(c) \/ MarioSend(c)

NextMario ==
    \/ \E noConnect \in BOOLEAN : EstWrap(1, FALSE, noConnect)
    \/ EstInsert(1)
    \/ WorkNext(1)
    \/ \E c \in Calls : MarioNext(c, 1)
    \/ DispAction
    \/ ApiCheck(DispThread) \/ ApiSend(DispThread)
    \/ FleetNext

SpecMario == Init /\ [][NextMario]_vars

\* the fleet under Mario.ApplyAll(actClose, true): the tunnels are being
\* established and connect while one thread calls ApplyAll; the published
\* statuses are recorded
NextAll ==
    \/ \E t \in Tunnels : EstWrap(t, FALSE, FALSE) \/ EstInsert(t) \/ WorkNext(t)
    \/ AllStart \/ AllCall \/ AllUnlock \/ AllWait
    \/ ApiCheck(AllThread) \/ ApiSend(AllThread)
    \/ DispRecv \/ DispLocked
    \/ FleetNext

SpecAll == InitLog /\ [][NextAll]_vars

\* one tunnel with local connections whose only calls are Down
NextDown ==
    \/ EstWrap(1, FALSE, FALSE)
    \/ EstInsert(1)
    \/ WorkNext(1)
    \/ ConnNext(1)
    \/ \E c \in Calls : CallStart(c, 1, "down", TRUE) \/ ApiCheck(c) \/ ApiSend(c)
    \/ FleetNext

SpecDown == Init /\ [][NextDown]_vars

\* one tunnel with two local connections and one call of Reconnect
NextTwo ==
    \/ EstWrap(1, FALSE, FALSE)
    \/ EstInsert(1)
    \/ \E k \in Tasks : AutoTask(1, k)
    \/ FinishPublish(1)
    \/ SshDrop(1)
    \/ ConnNext(1)
    \/ CallStart(1, 1, "reconnect", FALSE) \/ ApiCheck(1) \/ ApiSend(1)
    \/ FleetNext

SpecTwo == InitTwo /\ [][NextTwo]_vars

\* the Dashboard alone: views arrive in any order of IDs, any number of times
NextDash == \E id \in ViewIDs : DashRecv(id)

SpecDash == Init /\ [][NextDash]_vars

\* one tunnel whose user calls Down when it is Connected and Reconnect when
\* it is Closed, so that no second Up is started
NextRetry ==
    \/ EstWrap(1, FALSE, FALSE)
    \/ EstInsert(1)
    \/ WorkNext(1)
    \/ (status[1] = StatusConnected /\ CallStart(1, 1, "down", TRUE))
    \/ (status[1] = StatusClosed /\ CallStart(2, 1, "reconnect", FALSE))
    \/ \E c \in Calls : ApiCheck(c) \/ ApiSend(c)
    \/ FleetNext

SpecRetry == Init /\ [][NextRetry]_vars

\* one tunnel with local connections whose only calls are Destroy; the work
\* loop has returned by the time the item of the failed Accept is queued
DestroyTask(t, k) == AutoTask(t, k) \/ WtExecDown(t, k) \/ WtCloseListener(t, k)

NextDestroy ==
    \/ EstWrap(1, FALSE, FALSE)
    \/ EstInsert(1)
    \/ \E k \in Tasks : DestroyTask(1, k)
    \/ AcceptNext(1)
    \/ FinishPublish(1)
    \/ SshDrop(1)
    \/ ConnNext(1)
    \/ \E c \in Calls : CallStart(c, 1, "destroy", TRUE) \/ ApiNext(c)
    \/ FleetNext

SpecDestroy == Init /\ [][NextDestroy]_vars

\* the fleet under Mario.Stop: tunnels are established, connecting or not,
\* and run while one thread calls Stop
StopNext ==
    \/ StopSend \/ StopLock \/ StopPick \/ StopNewSend \/ StopDown
    \/ StopWaitStart \/ StopWait

NextStop ==
    \/ \E t \in Tunnels, noConnect \in BOOLEAN : EstWrap(t, FALSE, noConnect)
    \/ \E t \in Tunnels : EstInsert(t) \/ WorkNext(t)
    \/ StopNext
    \/ ApiCheck(AllThread) \/ ApiSend(AllThread)
    \/ DispRecv \/ DispLocked
    \/ FleetNext

SpecStop == Init /\ [][NextStop]_vars

\* one tunnel with a local connection, a Reconnect without sink and then a
\* Destroy
NextGone ==
    \/ EstWrap(1, FALSE, FALSE)
    \/ EstInsert(1)
    \/ WorkNext(1)
    \/ ConnNext(1)
    \/ CallStart(1, 1, "reconnect", FALSE)
    \/ CallStart(2, 1, "destroy", TRUE)
    \/ \E c \in Calls : ApiNext(c)
    \/ FleetNext

SpecGone == Init /\ [][NextGone]_vars

\* Establish with every kind of argument, and the tunnels it creates left to
\* themselves
NextEst ==
    \/ \E t \in Tunnels, a \in EstArgs, named \in BOOLEAN, noConnect \in BOOLEAN :
          EstCall(t, a, named, noConnect)
    \/ \E t \in Tunnels :
          \/ EstInsert(t)
          \/ \E k \in Tasks :
                \/ WtUp(t, k) \/ WtDial(t, k) \/ WtListenCheck(t, k) \/ WtListen(t, k)
                \/ WtConnected(t, k) \/ WtFcRet(t, k) \/ WtPost(t, k) \/ WtExit(t, k)
                \/ WtTick(t, k)
          \/ FinishPublish(t)
          \/ SshDrop(t)
    \/ FleetNext

SpecEst == Init /\ [][NextEst]_vars

\* the same, after NewMario with any heartbeat
SpecBeat == InitBeat /\ [][NextEst]_vars

\* ------------------------------------------------------------- properties
\* a work task of tunnel t that is inside the event loop of runOnce: at the
\* select, in a work item, in the health check or in a forceConnect of these
InLoopTask(t, k) ==
    LET w == wt[t][k] IN
    \/ w.pc \in {"loop", "exec", "newc", "dn2", "panic"}
    \/ (w.pc \in {"fc1", "fc2", "fc3", "fc4", "fcret", "post"} /\ w.ctx # "init")

InLoop(t) == \E k \in Tasks : InLoopTask(t, k)

\* a work task about to enter the loop (its first forceConnect has published
\* Connected and has not returned yet) or about to leave runOnce (the
\* deferred function has not run yet)
AtLoopEdge(t) ==
    \E k \in Tasks : \/ (wt[t][k].pc = "fcret" /\ wt[t][k].ctx = "init")
                       \/ wt[t][k].pc = "exit"

\* this step publishes a status of tunnel t: setStatusError sends on
\* updatedTunnels or blocks in the send holding the lock
Publishes(t) ==
    \/ /\ Len(updatedTunnels') > Len(updatedTunnels)
       /\ mu[t] = Free
       /\ updatedTunnels'[Len(updatedTunnels')] = t
    \/ /\ mu[t] = Free
       /\ mu'[t] # Free

\* C1: once the status of a tunnel has the Removed bit, every later status
\* of the tunnel has it.
C1_RemovedAbsorbing ==
    [][\A t \in Tunnels : removed(t) => Has(status'[t], StatusRemoved)]_vars

\* C2: a step of a Reconnect, Down or Destroy that began after a Destroy of
\* the tunnel signalled completion is a no-op: it starts no work task, puts
\* nothing on the work queue (where it could block) and changes no status.
C2_NoOpAfterDestroy ==
    [][\A c \in Calls :
          calls[c].late /\ calls'[c] # calls[c]
             => /\ wt' = wt
                /\ works' = works
                /\ status' = status]_vars

\* C3: the Running bit of a tunnel is set iff a work task of the tunnel is
\* inside its event loop (a task at the edge of the loop may have it set).
C3_RunningIffInLoop ==
    \A t \in Tunnels :
        /\ InLoop(t) => Has(status[t], StatusRunning)
        /\ Has(status[t], StatusRunning) => (InLoop(t) \/ AtLoopEdge(t))

\* C4: two executions of the work loop never run at the same time on one
\* tunnel.
C4_OneWorkTask ==
    \A t \in Tunnels : Cardinality({k \in Tasks : InLoopTask(t, k)}) <= 1

\* C5: every write to the runtime state of a tunnel is made by a work task of
\* the tunnel, none by a caller of the Tunnel API.
C5_OnlyWorkTaskWrites ==
    \A t \in Tunnels : writer[t] \subseteq {"work"}

\* the primary state of a status: the Error, Running and Removed bits masked
Primary(s) == BitClear(BitClear(BitClear(s, StatusError), StatusRunning), StatusRemoved)

PrimaryStates ==
    {StatusNew, StatusConnecting, Primary(StatusConnected),
     Primary(StatusReconnecting), Primary(StatusClosed)}

\* C6: the status of a tunnel, with the Error, Running and Removed bits
\* masked out, is one of New, Connecting, Connected, Reconnecting, Closed.
C6_OnePrimaryState ==
    \A t \in Tunnels : Primary(status[t]) \in PrimaryStates

\* the deferred function of a runOnce that returned at once has cleared the
\* Running bit of the status Connected that another work task published
C6_Witness ==
    \E t \in Tunnels : status[t] = BitClear(StatusConnected, StatusRunning)

\* C7: the completion sink of a Down, Destroy or Reconnect is eventually
\* signalled.
C7_SinkSignalled ==
    \A c \in Calls :
        (calls[c].pc = "check" /\ calls[c].sink # NoSink) ~> (sinks[c] >= 1)

\* the IDs of the Views that exist: those Establish holds or has returned,
\* those of the registry
ViewIds == {est[t].view.id : t \in {u \in Tunnels : est[u].view # NoView}}
           \cup {wrappers[t].id : t \in {u \in Tunnels : wrappers[u] # NoView}}

\* C8: the Views of two tunnels never have the same ID, a View keeps its ID,
\* and an ID minted is greater than every ID minted before.
C8_IdsUniqueIncreasing ==
    [][/\ \A t \in Tunnels, u \in Tunnels :
             t # u /\ est'[t].view # NoView /\ est'[u].view # NoView
                => est'[t].view.id # est'[u].view.id
       /\ \A t \in Tunnels :
             /\ est[t].view # NoView => est'[t].view = est[t].view
             /\ wrappers[t] # NoView => wrappers'[t].id = wrappers[t].id
             /\ wrappers'[t] # NoView /\ est'[t].view # NoView
                   => wrappers'[t].id = est'[t].view.id
       /\ \A n \in ViewIds' \ ViewIds : \A m \in ViewIds : m < n]_vars

\* two calls of Establish have interleaved: the tunnel that began second was
\* wrapped first, and both are registered
C8_Witness ==
    /\ est[1].pc = "registered"
    /\ est[2].pc = "registered"
    /\ est[2].view.id < est[1].view.id

\* C9: the events of the broadcast stream are the status changes of the
\* tunnel, each produced by its work task: a step that changes the status
\* publishes it, and a step that publishes is no step of a caller.
C9_EventsAreWorkTaskChanges ==
    [][\A t \in Tunnels :
          /\ status'[t] # status[t] => Publishes(t)
          /\ Publishes(t) => calls' = calls]_vars

\* C10: when the work item of Down signals its sink, the listener is closed,
\* every connector's sockets are closed, the connector set is empty and the
\* status is Closed without the Error bit (and without Removed).
C10_DownApplied ==
    [][\A t \in Tunnels, k \in Tasks :
          wt[t][k].pc = "dn2" /\ wt[t][k].item.kind = "down" /\ wt'[t][k].pc = "post"
             => /\ listener[t] \notin lsOpen'[t]
                /\ connectors'[t] = {}
                /\ sockOpen'[t] = {}
                /\ BitClear(status'[t], StatusRunning)
                      = BitClear(StatusClosed, StatusRunning)]_vars

\* C11: when the work item of Down signals its sink, the tunnel holds no
\* open SSH session.
C11_DownClosesClient ==
    [][\A t \in Tunnels, k \in Tasks :
          wt[t][k].pc = "dn2" /\ wt[t][k].item.kind = "down" /\ wt'[t][k].pc = "post"
             => sshClient'[t] # "open"]_vars

\* the runtime state of a tunnel that Down is to leave as it is
Runtime(t) == <<status[t], err[t], listener[t], connectors[t], lsOpen[t]>>

\* a tunnel as Down leaves it: Closed without error, no connector, the
\* listener closed
Downed(t) ==
    /\ status[t] = StatusClosed
    /\ connectors[t] = {}
    /\ listener[t] \notin lsOpen[t]

\* C12: Down applied to a tunnel that is as Down left it changes nothing of
\* its runtime state (status, err, listener, connector set), in the work
\* item's two steps and in a call on a tunnel that is not running.
C12_DownIdempotent ==
    [][/\ \A t \in Tunnels, k \in Tasks :
             wt[t][k].item.kind = "down" /\ wt[t][k].pc \in {"exec", "dn2"}
             /\ wt'[t][k] # wt[t][k] /\ Downed(t)
                => Runtime(t)' = Runtime(t)
       /\ \A c \in Calls, t \in Tunnels :
             calls[c].op = "down" /\ calls[c].t = t
             /\ calls[c].pc = "check" /\ calls'[c].pc = "done"
                => Runtime(t)' = Runtime(t)]_vars

\* a second Down has been applied: its work item has published and is about
\* to close the listener that the first Down closed
C12_Witness ==
    \E t \in Tunnels, k \in Tasks :
        /\ wt[t][k].pc = "dn2"
        /\ wt[t][k].item.kind = "down"
        /\ wt[t][k].item.sink = 2
        /\ sinks[1] = 1
        /\ Downed(t)

\* C18: Down on a tunnel whose connect failed (Error bit set, not running)
\* returns at once and leaves the status Closed.
C18_DownAfterFailedConnect ==
    [][\A c \in Calls :
          /\ calls[c].op = "down" /\ calls[c].pc = "check" /\ calls'[c].pc = "done"
          /\ Has(status[calls[c].t], StatusError)
          /\ ~Has(status[calls[c].t], StatusRunning)
          => Primary(status'[calls[c].t]) = Primary(StatusClosed)]_vars

\* nothing is left to do for tunnel t: the work queue is empty, its work
\* tasks wait in the select, no accept or copy task has an item to send
Drained(t) ==
    /\ works[t] = <<>>
    /\ \A k \in Tasks : wt[t][k].pc \in {"idle", "loop"}
    /\ \A l \in Listeners : acc[t][l].pc \notin {"sendConn", "sendErr"}
    /\ \A c \in 1..MaxConns : cps[t][c].send = 0

\* C19: once the work queue has drained after a Down, the tunnel is Closed
\* with an empty connector set and no connector socket open.
C19_ClosedHasNoConnector ==
    \A t \in Tunnels :
        status[t] = StatusClosed /\ Drained(t)
           => connectors[t] = {} /\ sockOpen[t] = {}

\* C14: when the forceConnect of a Reconnect item has failed, the work task
\* goes back to its select with the Error bit set and the cause stored.
C14_FailedItemSetsError ==
    [][\A t \in Tunnels, k \in Tasks :
          /\ wt[t][k].pc = "post" /\ wt[t][k].cause # NoErr
          /\ wt'[t][k].pc \in {"loop", "exit"}
          => /\ Has(status'[t], StatusError)
             /\ err'[t] = wt[t][k].cause]_vars

\* the statuses published for tunnel t so far
Stream(t) == log.of[t]

\* C15: while the environment has injected no failure (the dial and the bind
\* succeed, the session is not lost), the statuses published for a tunnel are
\* a prefix of Connecting, Connected, and both are out once its work task is
\* in the event loop.
C15_FirstConnectStream ==
    \A t \in Tunnels :
       failsLeft = MaxFails
          => /\ Stream(t) \in {<<>>, <<StatusConnecting>>,
                                <<StatusConnecting, StatusConnected>>}
             /\ InLoop(t) => Stream(t) = <<StatusConnecting, StatusConnected>>

C15_Witness ==
    /\ failsLeft = MaxFails
    /\ InLoop(1)
    /\ Stream(1) = <<StatusConnecting, StatusConnected>>

\* C16: an Error status published after Connected (the health check found
\* the session lost) is followed on the stream by Connecting.
C16_LostSessionStream ==
    \A t \in Tunnels, i \in 2..MaxLog :
       /\ i < Len(Stream(t))
       /\ Stream(t)[i - 1] = StatusConnected
       /\ Has(Stream(t)[i], StatusError)
       => Stream(t)[i + 1] = StatusConnecting

ConnectedOnce(t) ==
    \E i \in 1..Len(Stream(t)) : Has(Stream(t)[i], StatusConnected)

\* C17: after the first connect of a tunnel has failed and its forceConnect
\* has returned, the status is Connecting with the Error overlay and a work
\* task is in the event loop, where the next tick retries the connect.
C17_FirstConnectRetried ==
    \A t \in Tunnels :
       /\ Has(status[t], StatusError)
       /\ ~ConnectedOnce(t)
       /\ \A k \in Tasks : wt[t][k].pc \in {"idle", "loop"}
       => /\ BitClear(status[t], StatusRunning) = BitOr(StatusConnecting, StatusError)
          /\ InLoop(t)

\* C13: the step of Mario.Up that finds a status including Connected sends
\* nil once on the sink and returns; it puts nothing on the action queue,
\* changes nothing of the tunnel or its work tasks and publishes no status.
C13_UpOnConnected ==
    [][\A c \in Calls :
          /\ calls[c].pc = "mup"
          /\ calls'[c] # calls[c]
          /\ Has(status[calls[c].t], StatusConnected)
          => /\ sinks'[c] = sinks[c] + 1
             /\ calls'[c].pc = "done"
             /\ UNCHANGED <<tunnelVars, taskVars, actions, updatedTunnels>>]_vars

\* Mario.Up has returned from a Connected tunnel with its sink signalled once
C13_Witness ==
    \E c \in Calls :
       /\ calls[c].pc = "done" /\ calls[c].sink = c
       /\ sinks[c] = 1
       /\ status[1] = StatusConnected
       /\ actions = <<>> /\ works[1] = <<>>
       /\ calls[DispThread].pc = "idle"
       /\ \A k \in Tasks : wt[1][k].pc \in {"idle", "loop"}

\* the number of Closed statuses in a stream
RECURSIVE ClosedIn(_)
ClosedIn(q) ==
    IF q = <<>> THEN 0
    ELSE (IF Primary(Head(q)) = Primary(StatusClosed) /\ ~Has(Head(q), StatusRemoved)
             THEN 1 ELSE 0) + ClosedIn(Tail(q))

\* ApplyAll holds the read lock of the registry and waits, in Down, for the
\* lock of a tunnel; the work task that holds that lock waits in OnStatus for
\* room on updatedTunnels; the dispatcher, the only receiver, waits for the
\* write lock of the registry
AllStuck ==
    /\ WmRLocked
    /\ disp.pc = "lock"
    /\ calls[AllThread].pc = "check"
    /\ \E k \in Tasks : mu[calls[AllThread].t] = WorkTask(k)
    /\ ~Room(updatedTunnels, UpdatedCap)

\* C20: ApplyAll(close, wait) never waits in a cycle with the dispatcher, and
\* when waitTimeout has received a value for every registered tunnel, each of
\* them that had begun to connect has published exactly one Closed status.
C20_ApplyAllCloses ==
    /\ ~AllStuck
    /\ all.pc = "done" /\ ~all.timeout
          => \A t \in all.reg :
                Stream(t) # <<>> /\ Len(Stream(t)) < MaxLog
                   => ClosedIn(Stream(t)) = 1

\* the dispatcher has taken the stop signal of Stop
Stopped == all.op = "stop"

\* C21: once the dispatcher has taken the stop signal it receives nothing
\* more from the action queue or from updatedTunnels, and publishes nothing.
C21_DispatcherExits ==
    [][Stopped => /\ Len(actions') >= Len(actions)
                  /\ Len(updatedTunnels') >= Len(updatedTunnels)
                  /\ Len(publishWrapper') <= Len(publishWrapper)
                  /\ disp' = disp]_vars

\* Stop is in Down of a tunnel that is not running and has no work task, at
\* the send on waiting, and waiting is full: its only receiver is Stop itself
StopStuck ==
    /\ all.op = "stop" /\ all.pc = "sloop"
    /\ calls[AllThread].pc = "check"
    /\ ~running(calls[AllThread].t)
    /\ \A k \in Tasks : wt[calls[AllThread].t][k].pc = "idle"
    /\ ~SinkRoom(AllThread)

\* C22: Stop never waits on a send to its own completion channel waiting
\* that nothing will receive.
C22_StopReturns == ~StopStuck

\* C23: a step that takes a connector out of the connector set of its tunnel
\* (the item of closeConnector, of Down or of Destroy) leaves its sockets
\* closed.
C23_RemovedIsClosed ==
    [][\A t \in Tunnels, c \in 1..MaxConns :
          c \in connectors[t] /\ c \notin connectors'[t] => c \notin sockOpen'[t]]_vars

\* connector c has been closed: one of its copy directions has ended and
\* called Connector.Close
Closed1(t, c) == c <= cCount[t] /\ cps[t][c].copy < 2

\* C24: while a closed connector is in the connector set, a work task of
\* its tunnel is there to execute the removal.
C24_ClosedIsRemoved ==
    \A t \in Tunnels, c \in 1..MaxConns :
       Closed1(t, c) /\ c \in connectors[t] => \E k \in Tasks : wt[t][k].pc # "idle"

\* C25: the work item of a failed Accept that runs on a closed tunnel leaves
\* status and err as they are and publishes nothing, and the stream of a
\* tunnel that got one Down has at most one Closed.
C25_AcceptErrOnClosed ==
    /\ [][\A t \in Tunnels, k \in Tasks :
             /\ wt[t][k].pc = "exec" /\ wt[t][k].item.kind = "acceptErr"
             /\ wt'[t][k] # wt[t][k]
             /\ closed(t)
             => /\ status'[t] = status[t] /\ err'[t] = err[t]
                /\ ~Publishes(t)
                /\ log' = log]_vars
    /\ [](\A t \in Tunnels : ClosedIn(Stream(t)) <= 1)

\* Down has closed tunnel 1, its accept loop has ended on the accept error,
\* and the work item of that error has been executed
C25_Witness ==
    /\ status[1] = StatusClosed /\ err[1] = NoErr
    /\ Stream(1) = <<StatusConnecting, StatusConnected, StatusClosed>>
    /\ listener[1] # 0 /\ acc[1][listener[1]].pc = "done"
    /\ works[1] = <<>>
    /\ \E k \in Tasks : wt[1][k].pc = "loop"

\* C26: a call of Establish that fails leaves the registry, the ID counter,
\* the tunnels, their work tasks and the status channels as they were.
C26_FailedEstablish ==
    [][\A t \in Tunnels :
          est[t].pc = "none" /\ est'[t].pc = "failed"
          => UNCHANGED <<wrappers, tunnelCount, tunnelVars, taskVars,
                         updatedTunnels, publishWrapper, actions>>]_vars

\* one call of Establish has failed, and the next one got the first ID
C26_Witness ==
    \E t, u \in Tunnels :
       /\ est[t].pc = "failed"
       /\ est[u].pc = "registered" /\ wrappers[u].id = 1
       /\ wrappers[t] = NoView /\ status[t] = StatusNew
       /\ \A k \in Tasks : wt[t][k].pc = "idle"

\* C27: Tunnel.Error returns an error exactly when the status has the Error
\* bit; an err left from an earlier failure is not returned without the bit.
C27_ErrorIffBit ==
    \A t \in Tunnels : (Error(t) # NoErr) <=> Has(status[t], StatusError)

\* a failure was stored, and a later status has cleared the Error bit
C27_Witness ==
    /\ err[1] # NoErr
    /\ status[1] = StatusConnected
    /\ Error(1) = NoErr

\* C28: every tunnel that Establish has created has a health-check interval
\* of at least 15 seconds.
C28_IntervalAtLeast15 ==
    \A t \in Tunnels :
       est[t].pc \in {"wrapped", "registered"} => beat.of[t] >= 15

\* C29: a Reconnect that finds the tunnel not running starts Up and returns;
\* it does not go on to queue a forceConnect.
C29_ReconnectNotRunning ==
    [][\A c \in Calls, t \in Tunnels :
          /\ calls[c].pc = "check" /\ calls[c].op = "reconnect" /\ calls[c].t = t
          /\ calls'[c] # calls[c]
          /\ ~running(t)
          => calls'[c].pc = "done"]_vars

\* C30: while Reconnect and Destroy are not called, a tunnel that Down closed
\* without error stays Closed: no health check publishes an error for it or
\* starts a forceConnect, and its SSH session is not dialled again.
C30_ClosedSkipsTick ==
    [][\A t \in Tunnels :
          status[t] = StatusClosed
          => /\ status'[t] = StatusClosed
             /\ err'[t] = err[t]
             /\ sshClient'[t] = "open" => sshClient[t] = "open"
             /\ \A k \in Tasks : wt'[t][k].pc = "fc1" => wt[t][k].pc = "fc1"]_vars

\* a closed tunnel whose session was lost afterwards, its work task at the
\* select of runOnce, where a health check that did not skip it would redial
C30_Witness ==
    /\ status[1] = StatusClosed /\ Error(1) = NoErr
    /\ sshClient[1] = "lost"
    /\ works[1] = <<>>
    /\ \E k \in Tasks : wt[1][k].pc = "loop"
    /\ \A c \in Calls : calls[c].pc \in {"idle", "done"}

\* the work task takes the item of an accepted connection while the SSH
\* session is there but dead, so that sshClient.Dial fails
DialFails(t) ==
    /\ works[t] # <<>> /\ Head(works[t]).kind = "accepted"
    /\ works'[t] = Tail(works[t])
    /\ sshClient[t] \notin {"open", "nil"}

\* C31: when the dial of the remote target fails for an accepted connection,
\* the accepted local socket is closed, no Connector is added, cCount stays,
\* and the status and the error of the tunnel stay.
C31_DialFailDrops ==
    [][\A t \in Tunnels :
          DialFails(t)
          => /\ conns'[t] = conns[t] - 1
             /\ connectors'[t] = connectors[t] /\ cCount'[t] = cCount[t]
             /\ status'[t] = status[t] /\ err'[t] = err[t]]_vars

\* C32: the counters of a tunnel's connectors are unique and increase in the
\* order of creation: every newConnector raises cCount, so that its
\* Connector gets a counter no Connector of the tunnel had before.
C32_CountersIncrease ==
    [][\A t \in Tunnels, k \in Tasks :
          wt[t][k].pc = "newc" /\ wt'[t][k].pc # "newc"
          => cCount'[t] > cCount[t]]_vars

\* call c is in the check of Down or Destroy (op), finds its tunnel not
\* running, and takes the step
NotRunningCheck(c, op) ==
    /\ calls[c].pc = "check" /\ calls[c].op = op
    /\ ~running(calls[c].t)
    /\ calls'[c] # calls[c]

\* C33: Down on a tunnel that is not running changes nothing of the tunnel,
\* queues no work item, publishes no status, signals its sink once and
\* returns; Destroy on one sets Removed, queues nothing, then signals its sink
\* once and returns; no sink is ever signalled twice.
C33_NotRunningNoOp ==
    /\ [][\A c \in Calls :
             /\ NotRunningCheck(c, "down")
                => /\ UNCHANGED <<tunnelVars, taskVars, fleetVars, log>>
                   /\ sinks' = Signal(calls[c].sink)
                   /\ calls'[c] = Return(c)
             /\ NotRunningCheck(c, "destroy")
                => /\ status'[calls[c].t] = StatusRemoved
                   /\ works' = works /\ sinks' = sinks
                   /\ calls'[c].pc = "sig"
             /\ calls[c].pc = "sig" /\ calls'[c] # calls[c]
                => /\ UNCHANGED <<tunnelVars, taskVars, fleetVars, log>>
                   /\ sinks' = Signal(calls[c].sink)
                   /\ calls'[c] = Return(c)]_vars
    /\ [](\A c \in Calls : sinks[c] <= 1)

\* a tunnel established without connecting, still New with no task and
\* nothing queued, after a Down with a sink has signalled and returned
C33_Witness ==
    /\ status[1] = StatusNew /\ works[1] = <<>>
    /\ \A k \in Tasks : wt[1][k].pc = "idle"
    /\ calls[1].pc = "done" /\ sinks[1] = 1

\* C34: whatever views the Dashboard has received, in whatever order, its
\* list is strictly ascending by ID, and the lookup by ID finds a view with
\* that ID exactly when one was received.
C34_SnapshotSorted ==
    /\ \A i \in 1..(Len(dash.tunnels) - 1) : dash.tunnels[i] < dash.tunnels[i + 1]
    /\ \A id \in ViewIDs :
          LET i == getTunnel(dash.tunnels, id) IN
          /\ i # 0 <=> id \in dash.got
          /\ i # 0 => dash.tunnels[i] = id

\* three views received, the one with the lowest ID last
C34_Witness ==
    /\ dash.got = {-2, 0, 3} /\ dash.last = -2
    /\ dash.tunnels = <<-2, 0, 3>>

\* C35: a tunnel whose status is Connected has an open listener, the one in
\* its listener field, and the accept task of that listener is alive.
C35_ConnectedListens ==
    \A t \in Tunnels :
       status[t] = StatusConnected
       => /\ listener[t] \in lsOpen[t]
          /\ acc[t][listener[t]].pc \in {"accept", "sendConn"}

\* the dispatcher is in Down or Reconnect of a tunnel and waits there for
\* good: at running() for the read lock, which a work task holds while it
\* waits in OnStatus for room on updatedTunnels, or at the send on works,
\* which is full while every work task of the tunnel waits in OnStatus; the
\* dispatcher is the only receiver of updatedTunnels
DispStuck ==
    LET cl == calls[DispThread] IN
    /\ cl.pc \in {"check", "send"}
    /\ ~Room(updatedTunnels, UpdatedCap)
    /\ \E k \in Tasks : mu[cl.t] = WorkTask(k)
    /\ cl.pc = "send"
          => /\ ~Room(works[cl.t], WorksCap)
             /\ \A k \in Tasks : wt[cl.t][k].pc # "idle" => mu[cl.t] = WorkTask(k)

\* C36: the work task publishing a status and the dispatcher applying a close
\* or reconnect action on the same tunnel never wait on each other for good.
C36_NoDispatcherDeadlock == ~DispStuck

\* C37: the work item of a failed Accept leaves a tunnel alone that is
\* Connected on an open listener: the failure of the listener Down closed
\* does not close the tunnel a Reconnect has brought up again since.
C37_StaleAcceptErr ==
    [][\A t \in Tunnels, k \in Tasks :
          /\ wt[t][k].pc = "exec" /\ wt[t][k].item.kind = "acceptErr"
          /\ wt'[t][k] # wt[t][k]
          /\ status[t] = StatusConnected /\ listener[t] \in lsOpen[t]
          => status'[t] = StatusConnected /\ err'[t] = err[t]]_vars

\* a copy task of connector c is at the send of closeConnector, works is
\* full, and the tunnel is Removed with no work task left to receive
CopyStuck(t, c) ==
    /\ cps[t][c].send > 0
    /\ ~Room(works[t], WorksCap)
    /\ removed(t)
    /\ \A k \in Tasks : wt[t][k].pc = "idle"

\* C38: no copy task of a Connector waits for good at the send of its
\* removal request after Destroy has closed its sockets.
C38_CopyTasksEnd == \A t \in Tunnels, c \in 1..MaxConns : ~CopyStuck(t, c)

\* C39: a tunnel whose status has the Running bit has a listener, so that the
\* items of Down and Destroy have one to close.
C39_RunningHasListener ==
    \A t \in Tunnels :
       /\ running(t) => listener[t] # 0
       /\ \A k \in Tasks : wt[t][k].pc = "dn2" => listener[t] # 0

\* the item of Down is about to close the listener of a tunnel it has just
\* published as Closed
C39_Witness ==
    /\ status[1] = StatusClosed /\ listener[1] \in lsOpen[1]
    /\ \E k \in Tasks : wt[1][k].pc = "dn2" /\ wt[1][k].item.kind = "down"

\* C40: the registry holds for a tunnel the TunnelInfo Establish returned and
\* no other: the dispatcher finds every tunnel that publishes a status in the
\* registry, passes that TunnelInfo on, and wraps no tunnel as "unknown".
C40_OneViewPerTunnel ==
    /\ [][Len(publishWrapper') > Len(publishWrapper)
             => LET raw == Head(updatedTunnels) IN
                /\ est[raw].pc = "registered"
                /\ publishWrapper'[Len(publishWrapper')] = est[raw].view
                /\ wrappers' = wrappers /\ tunnelCount' = tunnelCount]_vars
    /\ [](\A t \in Tunnels :
             /\ wrappers[t] # NoView
                => est[t].pc = "registered" /\ wrappers[t] = est[t].view
             /\ wrappers[t].name # "unknown")

\* the second tunnel established, under a given name, has published a status
\* and the dispatcher has passed its TunnelInfo on
C40_Witness ==
    \E t \in Tunnels :
       /\ est[t].pc = "registered" /\ est[t].view = View(2, "given")
       /\ status[t] = StatusConnected
       /\ publishWrapper = <<est[t].view>>

====
